---- MODULE Spec2Model ----
(***************************************************************************)
(* ScreenToSpace: the window placement and workspace reordering engine     *)
(* (WindowPlacementHandler), the workspace queries (WorkspaceManager), the *)
(* eligibility filter (WindowFilter) and the event coordinator             *)
(* (WindowEventHandler), over a model of the host window manager.          *)
(*                                                                         *)
(* The handlers are written as operators on a state record s, so that one  *)
(* handler can be applied inside another one (a re-entrant call made from  *)
(* a host side effect) and one after another (place, then restore).  Each  *)
(* action of the module applies one whole handler to the current state.    *)
(***************************************************************************)
EXTENDS Integers, Sequences, FiniteSets, TLC

(* ------------------------------ bounds -------------------------------- *)

\* The host never holds more workspaces than this (HostAppendWorkspace).
MaxWorkspaces == 3

\* A scripted host fault or re-entrant call happens at one of the first
\* MaxHookAt host side effects of an event.
MaxHookAt == 2

\* The number of workspaces the fallback of restore is studied with: a
\* recorded index can lie outside a sequence that still holds three.
MaxFallbackWorkspaces == 4

\* Idle sources waiting in the main loop at most.
MaxIdleSources == 2

(* ------------------------------ universe ------------------------------ *)

\* Window identities (window.get_id()).
Windows == {1, 2, 3}

\* Windows of applications the initial filter setting lets through; window 3
\* belongs to an application it excludes.
ManagedWindows == {1, 2}

\* Application ids are strings, written as sequences of these pieces; <<>>
\* is the empty string, and stands for "no id" (null) as well.
IdPieces == {"a", "A", "b", "B", "c", "C", ".desktop", ".Desktop", " "}

\* What get_gtk_application_id(), get_wm_class_instance() and get_wm_class()
\* return for each window.
WindowAppId ==
    << <<(<<>>), <<"A">>, <<"A">>>>,
       <<(<<"b", ".Desktop">>), <<"b">>, <<"B">>>>,
       <<(<<>>), <<>>, <<"C">>>> >>

\* window.window_type
WindowType == <<"NORMAL", "NORMAL", "NORMAL">>

\* The settings filter-mode, blacklist-apps and whitelist-apps.
DefaultFilter ==
    [mode |-> "blacklist", blacklist |-> {<<"c", ".desktop">>}, whitelist |-> {}]

FilterSettings ==
    {DefaultFilter,
     [mode |-> "blacklist", blacklist |-> {<<"a">>, <<"C">>}, whitelist |-> {}],
     [mode |-> "whitelist", blacklist |-> {}, whitelist |-> {<<"B">>}]}

\* ExtensionConstants.MARKER_PLACE, MARKER_BACK, and no entry.
MARKER_PLACE == "place"

MARKER_BACK == "back"

NoAction == "none"

\* Workspace object identities; the position of a workspace is its place in
\* the sequence order, not its identity.
WorkspaceIds == 1..MaxWorkspaces

Monitors == {"primary", "secondary"}

\* display.get_primary_monitor()
get_primary_monitor == "primary"

\* window.get_workspace() of a window that no longer exists.
NoWorkspace == 0

\* "none found" of the workspace queries.
NotFound == -1

\* _placedWindows.get(id) of a window without a record.  The field home is
\* history, not program state: the identity of the workspace that sat at
\* homeWorkspaceIndex when the record was written (the code stores the index
\* alone).  No handler reads it, and it is kept only where trackHome is set.
NoRecord == [mode |-> "none", homeWorkspaceIndex |-> NotFound, home |-> NoWorkspace]

PlacementRecords ==
    [mode : {"reorder", "insert"}, homeWorkspaceIndex : 0..(MaxWorkspaces - 1),
     home : WorkspaceIds \cup {NoWorkspace}]

\* The script of one event: at the at-th host side effect of the event the
\* host call throws (kind "throw"), or it takes effect and the host calls
\* back into the engine for window win before it returns (kind "place",
\* "restore").
NoHook == [at |-> 0, kind |-> "none", win |-> 0]

Hooks ==
    [at : 1..MaxHookAt, kind : {"throw"}, win : {0}]
        \cup [at : 1..MaxHookAt, kind : {"place", "restore"}, win : ManagedWindows]

\* What is known about the re-entrant call of the last event.
NoReentry == [op |-> "none", win |-> 0, guarded |-> FALSE, changed |-> FALSE]

VARIABLES
    order,          \* the host's workspace sequence (workspace identities)
    wsOf,           \* window -> its workspace identity, NoWorkspace when destroyed
    active,         \* the active workspace (identity)
    winMon,         \* window -> monitor
    sticky,         \* windows whose is_always_on_all_workspaces() is true
    onlyPrimary,    \* org.gnome.mutter workspaces-only-on-primary
    insertAfter,    \* setting insert-workspace-after-current
    placed,         \* _placedWindows: window -> PlacementRecord or NoRecord
    pendingOps,     \* _pendingOperations
    trackHome,      \* history: whether records keep the identity of the home
    winMax,         \* windows that are maximized (window.is_maximized())
    winFull,        \* windows that are fullscreen (window.fullscreen)
    winMin,         \* windows that are minimized
    unmapped,       \* windows that are not created yet
    pendingActions, \* _pendingActions: window -> MARKER_PLACE, MARKER_BACK or NoAction
    idleSources,    \* the main loop's idle sources of _focusMovedWindow, oldest first
    triggerOnMaximize,      \* setting trigger-on-maximize
    triggerOnFullscreen,    \* setting trigger-on-fullscreen
    filter,         \* settings filter-mode, blacklist-apps, whitelist-apps
    appIds,         \* window -> the three application ids the host reports
    winType,        \* window -> window.window_type
    tr              \* what the last step did (history, read by the properties)

\* What the host knows of the windows beside their workspace.
windowState == <<winMax, winFull, winMin, unmapped>>

settings == <<triggerOnMaximize, triggerOnFullscreen, filter>>

config == <<winMon, sticky, onlyPrimary, insertAfter, trackHome, appIds, winType>>

vars == <<order, wsOf, active, placed, pendingOps, pendingActions, idleSources, tr,
          config, windowState, settings>>

(* --------------------------- the state record -------------------------- *)

\* The current state as a record, with the bookkeeping of one event:
\* calls (host side effects made), path (engine functions entered), n (host
\* side effects counted), exc (an exception is propagating), threw (an
\* exception was raised), hook (the script), and for a re-entrant call: stopped (the
\* run is cut right after the scripted side effect, to show the state the
\* host calls back in) and inj (the state the call back left).
StateOf(o, w, a, p, po, pa, h) ==
    [order |-> o, wsOf |-> w, active |-> a, placed |-> p, pendingOps |-> po,
     pendingActions |-> pa, max |-> winMax, full |-> winFull,
     triggerOnMaximize |-> triggerOnMaximize,
     triggerOnFullscreen |-> triggerOnFullscreen, filter |-> filter,
     mon |-> winMon, sticky |-> sticky, onlyPrimary |-> onlyPrimary,
     insertAfter |-> insertAfter, track |-> trackHome,
     appIds |-> appIds, type |-> winType,
     calls |-> <<>>, path |-> <<>>, n |-> 0, exc |-> FALSE,
     hook |-> h, threw |-> FALSE, stopped |-> FALSE, inj |-> <<>>]

Start(h) == StateOf(order, wsOf, active, placed, pendingOps, pendingActions, h)

Cur == Start(NoHook)

\* The state after the step, for properties that compare before and after.
CurNext == StateOf(order', wsOf', active', placed', pendingOps', pendingActions', NoHook)

(* ------------------------------ helpers -------------------------------- *)

RECURSIVE SortedSeq(_)
\* The elements of a finite set of integers, ascending.
SortedSeq(S) ==
    IF S = {} THEN <<>>
    ELSE LET m == CHOOSE x \in S : \A y \in S : x <= y
         IN  <<m>> \o SortedSeq(S \ {m})

Range(f) == {f[i] : i \in DOMAIN f}

\* Nothing more of the handler runs: an exception is propagating, or the
\* run is cut.
Halted(s) == s.exc \/ s.stopped

\* try { ... } catch (error) { log }: the exception stops here.
Catch(s) == [s EXCEPT !.exc = FALSE]

CatchIf(caught, s) == IF caught THEN Catch(s) ELSE s

\* An engine function was entered.
Enter(s, name) == IF Halted(s) THEN s ELSE [s EXCEPT !.path = Append(@, name)]

(* --------------------------- host: queries ----------------------------- *)

\* manager.get_n_workspaces()
get_n_workspaces(s) == Len(s.order)

\* manager.get_workspace_by_index(i): null when i is out of range.
get_workspace_by_index(s, i) ==
    IF i >= 0 /\ i < Len(s.order) THEN s.order[i + 1] ELSE NoWorkspace

\* workspace.index()
index(s, ws) ==
    IF \E i \in 1..Len(s.order) : s.order[i] = ws
    THEN (CHOOSE i \in 1..Len(s.order) : s.order[i] = ws) - 1
    ELSE NotFound

\* The window exists (its object can still be queried).
IsAlive(s, w) == s.wsOf[w] # NoWorkspace

\* window.is_always_on_all_workspaces(): a flag the host keeps per window.
is_always_on_all_workspaces(s, w) == w \in s.sticky

\* The host shows the window on every workspace: a window with the flag, and,
\* when workspaces are on the primary monitor only, a window of another
\* monitor (for which the host may or may not report the flag).
on_all_workspaces(s, w) ==
    \/ is_always_on_all_workspaces(s, w)
    \/ s.onlyPrimary /\ s.mon[w] # get_primary_monitor

\* window.get_workspace(): a window on all workspaces reports the active one.
get_workspace(s, w) ==
    IF ~IsAlive(s, w) THEN NoWorkspace
    ELSE IF on_all_workspaces(s, w) THEN s.active
    ELSE s.wsOf[w]

\* workspace.list_windows(): a window on all workspaces is listed by each.
list_windows(s, ws) ==
    {w \in Windows : IsAlive(s, w) /\
        (on_all_workspaces(s, w) \/ s.wsOf[w] = ws)}

(* ------------------------ host: side effects --------------------------- *)

\* manager.reorder_workspace(ws, idx): ws is taken out and put back at idx.
ReorderEffect(s, ws, idx) ==
    IF index(s, ws) = NotFound \/ idx < 0 \/ idx >= Len(s.order) THEN s
    ELSE LET without == SelectSeq(s.order, LAMBDA x : x # ws)
         IN  [s EXCEPT !.order = SubSeq(without, 1, idx) \o <<ws>>
                                 \o SubSeq(without, idx + 1, Len(without))]

\* window.change_workspace_by_index(idx, false): nothing when no workspace
\* sits at idx.
ChangeWorkspaceEffect(s, w, idx) ==
    IF get_workspace_by_index(s, idx) = NoWorkspace \/ ~IsAlive(s, w) THEN s
    ELSE [s EXCEPT !.wsOf[w] = get_workspace_by_index(s, idx)]

\* workspace.activate(time)
ActivateEffect(s, ws) ==
    IF index(s, ws) = NotFound THEN s ELSE [s EXCEPT !.active = ws]

ApplyCall(s, call) ==
    LET logged == [s EXCEPT !.calls = Append(@, call)]
    IN  CASE call[1] = "reorder"  -> ReorderEffect(logged, call[2], call[3])
          [] call[1] = "change"   -> ChangeWorkspaceEffect(logged, call[2], call[3])
          [] call[1] = "activate" -> ActivateEffect(logged, call[2])
          [] OTHER                -> logged

\* The state the re-entrant call left takes the place of the state.
Inject(s, x) ==
    [s EXCEPT !.order = x.order, !.wsOf = x.wsOf, !.active = x.active,
              !.placed = x.placed, !.pendingOps = x.pendingOps,
              !.calls = x.calls, !.path = x.path]

\* One host side effect: it is counted; under the script it throws, or it
\* takes effect and the host calls back into the engine.
HostEffect(s, call) ==
    IF Halted(s) THEN s
    ELSE LET counted == [s EXCEPT !.n = @ + 1]
             scripted == s.hook.at = s.n + 1
         IN  IF scripted /\ s.hook.kind = "throw"
             THEN [counted EXCEPT !.exc = TRUE, !.threw = TRUE]
             ELSE IF scripted /\ s.hook.kind = "stop"
             THEN [ApplyCall(counted, call) EXCEPT !.stopped = TRUE]
             ELSE IF scripted /\ s.hook.kind = "inject"
             THEN Inject(counted, s.inj)
             ELSE ApplyCall(counted, call)

\* A host call on a null object is a TypeError.
reorder_workspace(s, ws, idx) ==
    IF Halted(s) THEN s
    ELSE IF ws = NoWorkspace THEN [s EXCEPT !.exc = TRUE, !.threw = TRUE]
    ELSE HostEffect(s, <<"reorder", ws, idx>>)

change_workspace_by_index(s, w, idx) == HostEffect(s, <<"change", w, idx>>)

activate(s, ws) ==
    IF Halted(s) THEN s
    ELSE IF ws = NoWorkspace THEN [s EXCEPT !.exc = TRUE, !.threw = TRUE]
    ELSE HostEffect(s, <<"activate", ws, 0>>)

\* GLib.idle_add(...): the callback is only queued.
idle_add(s, w) ==
    IF Halted(s) THEN s ELSE [s EXCEPT !.calls = Append(@, <<"idle_add", w, 0>>)]

(* ------------------------- WorkspaceManager ---------------------------- *)

\* Number of windows of the workspace on the monitor, pinned windows aside.
getWindowCountOnMonitor(s, ws, monitor) ==
    IF ws = NoWorkspace THEN 0
    ELSE Cardinality({w \in list_windows(s, ws) :
            ~is_always_on_all_workspaces(s, w) /\ s.mon[w] = monitor})

\* First index whose workspace has no window on the monitor, or -1.
\* Variant: the windows pinned to all workspaces count as well.
getFirstFreeWorkspaceCountingPinned(s, monitor) ==
    LET free == {i \in 0..(get_n_workspaces(s) - 1) :
                   ~\E w \in list_windows(s, get_workspace_by_index(s, i)) :
                       s.mon[w] = monitor}
    IN  IF free = {} THEN NotFound
        ELSE CHOOSE i \in free : \A j \in free : i <= j

getFirstFreeWorkspace(s, monitor) ==
    LET free == {i \in 0..(get_n_workspaces(s) - 1) :
                   getWindowCountOnMonitor(s, get_workspace_by_index(s, i), monitor) = 0}
    IN  IF free = {} THEN NotFound
        ELSE CHOOSE i \in free : \A j \in free : i <= j

\* Last index whose workspace has no window on any monitor, or -1.
getLastCompletelyEmptyWorkspace(s) ==
    LET empty == {i \in 0..(get_n_workspaces(s) - 1) :
                    ~\E w \in list_windows(s, get_workspace_by_index(s, i)) :
                        ~is_always_on_all_workspaces(s, w)}
    IN  IF empty = {} THEN NotFound
        ELSE CHOOSE i \in empty : \A j \in empty : i >= j

\* Nearest occupied index below currentIndex, else the nearest above, or -1.
\* Variant: the occupied workspace closest to currentIndex, the lower one
\* of two equally close ones.
getLastOccupiedWorkspaceClosest(s, currentIndex, monitor) ==
    LET occupied == {i \in (0..(get_n_workspaces(s) - 1)) \ {currentIndex} :
                       getWindowCountOnMonitor(s, get_workspace_by_index(s, i), monitor) > 0}
        Dist(i) == IF i < currentIndex THEN currentIndex - i ELSE i - currentIndex
    IN  IF occupied = {} THEN NotFound
        ELSE CHOOSE i \in occupied :
                \A j \in occupied : Dist(i) < Dist(j) \/ (Dist(i) = Dist(j) /\ i <= j)

getLastOccupiedWorkspace(s, currentIndex, monitor) ==
    LET occupied(i) ==
            getWindowCountOnMonitor(s, get_workspace_by_index(s, i), monitor) > 0
        back == {i \in 0..(currentIndex - 1) : occupied(i)}
        forth == {i \in (currentIndex + 1)..(get_n_workspaces(s) - 1) : occupied(i)}
    IN  IF back # {} THEN CHOOSE i \in back : \A j \in back : i >= j
        ELSE IF forth # {} THEN CHOOSE i \in forth : \A j \in forth : i <= j
        ELSE NotFound

isWorkspacesOnlyOnPrimary(s) == s.onlyPrimary

(* ----------------------- WindowPlacementHandler ------------------------ *)

validateWindow(s, w) == IsAlive(s, w) /\ get_workspace(s, w) # NoWorkspace

isInsertAfterCurrentEnabled(s) == s.insertAfter

getOtherWindowsOnMonitor(s, ws, excludeWindow, monitor) ==
    {w \in list_windows(s, ws) :
        w # excludeWindow /\ ~is_always_on_all_workspaces(s, w) /\ s.mon[w] = monitor}

\* list_windows().filter(w => w !== window && !w.is_always_on_all_workspaces())
otherWindowsOfWorkspace(s, ws, excludeWindow) ==
    {w \in list_windows(s, ws) :
        w # excludeWindow /\ ~is_always_on_all_workspaces(s, w)}

RECURSIVE ForEachChange(_, _, _, _)
\* windows.forEach(w => w.change_workspace_by_index(idx, false)); with
\* caught, each call sits in its own try/catch.
ForEachChange(s, windows, idx, caught) ==
    IF windows = <<>> THEN s
    ELSE ForEachChange(
            CatchIf(caught, change_workspace_by_index(s, Head(windows), idx)),
            Tail(windows), idx, caught)

\* Variant: a single idle callback, the focus runs in the next idle turn.
focusMovedWindowOneTurn(s, w) ==
    IF Halted(s) THEN s ELSE [s EXCEPT !.calls = Append(@, <<"idle_add", w, 1>>)]

focusMovedWindow(s, w) == idle_add(s, w)

\* The outer idle callback of _focusMovedWindow: it adds the inner callback
\* as a new idle source and returns GLib.SOURCE_REMOVE.
focusOuterCallback(s, w) == [s EXCEPT !.calls = Append(@, <<"idle_add", w, 1>>)]

\* The inner idle callback of _focusMovedWindow: window.activate(time) and
\* window.raise() of a window that is still valid, inside try/catch; it
\* returns GLib.SOURCE_REMOVE on every path.
focusInnerCallback(s, w) ==
    IF ~validateWindow(s, w) THEN s
    ELSE Catch(HostEffect(HostEffect(Enter(s, "focus"), <<"focus", w, 0>>),
                          <<"raise", w, 0>>))

\* manager.get_workspace_by_index(targetIndex).activate(time)
activateWorkspaceAt(s, targetIndex) ==
    activate(s, get_workspace_by_index(s, targetIndex))

\* Variant: the window is not moved.
moveWindowToWorkspaceNowhere(s, w, targetIndex) == s

\* Variant: the window is moved, the target workspace is not activated.
moveWindowToWorkspaceNoActivate(s, w, targetIndex) ==
    IF Halted(s) THEN s
    ELSE IF ~validateWindow(s, w) THEN s
    ELSE IF targetIndex < 0 \/ targetIndex >= get_n_workspaces(s) THEN s
    ELSE Catch(focusMovedWindow(change_workspace_by_index(s, w, targetIndex), w))

moveWindowToWorkspace(s, w, targetIndex) ==
    IF Halted(s) THEN s
    ELSE IF ~validateWindow(s, w) THEN s
    ELSE IF targetIndex < 0 \/ targetIndex >= get_n_workspaces(s) THEN s
    ELSE Catch(focusMovedWindow(
            activateWorkspaceAt(change_workspace_by_index(s, w, targetIndex), targetIndex),
            w))

\* History: the workspace at the index a record is written with.
homeIdentity(s, homeWorkspaceIndex) ==
    IF s.track THEN get_workspace_by_index(s, homeWorkspaceIndex) ELSE NoWorkspace

\* Variant: a record that exists is kept.
markWindowAsPlacedOnce(s, w, homeWorkspaceIndex) ==
    IF Halted(s) \/ s.placed[w] # NoRecord THEN s
    ELSE [s EXCEPT !.placed[w] =
            [mode |-> "reorder", homeWorkspaceIndex |-> homeWorkspaceIndex,
             home |-> homeIdentity(s, homeWorkspaceIndex)]]

\* this._placedWindows.set(windowId, {...}); the history keeps whether the
\* key had a value already ("replace").
markWindowAsPlaced(s, w, homeWorkspaceIndex) ==
    IF Halted(s) THEN s
    ELSE [s EXCEPT !.placed[w] =
            [mode |-> "reorder", homeWorkspaceIndex |-> homeWorkspaceIndex,
             home |-> homeIdentity(s, homeWorkspaceIndex)],
                   !.path = IF s.placed[w] = NoRecord THEN @ ELSE Append(@, "replace")]

forgetWindow(s, w) ==
    IF Halted(s) THEN s ELSE [s EXCEPT !.placed[w] = NoRecord]

\* manager.reorder_workspace(manager.get_workspace_by_index(from), to)
reorderWorkspaceAt(s, from, to) ==
    reorder_workspace(s, get_workspace_by_index(s, from), to)

\* Variant: the workspaces are swapped and the other windows travel with theirs.
reorderWorkspacesKeepWindows(s, currentIndex, targetIndex, windows) ==
    IF Halted(s) THEN s
    ELSE IF currentIndex < targetIndex THEN
        Catch(reorderWorkspaceAt(reorderWorkspaceAt(s, targetIndex, currentIndex),
                                 currentIndex + 1, targetIndex))
    ELSE IF currentIndex > targetIndex THEN
        Catch(reorderWorkspaceAt(reorderWorkspaceAt(s, currentIndex, targetIndex),
                                 targetIndex + 1, currentIndex))
    ELSE s

\* Variant: one reorder call only; the workspaces in between shift by one.
reorderWorkspacesOneMove(s, currentIndex, targetIndex, windows) ==
    IF Halted(s) THEN s
    ELSE IF currentIndex < targetIndex THEN
        Catch(ForEachChange(
            reorderWorkspaceAt(s, targetIndex, currentIndex),
            SortedSeq(windows), currentIndex, TRUE))
    ELSE IF currentIndex > targetIndex THEN
        Catch(ForEachChange(
            reorderWorkspaceAt(s, currentIndex, targetIndex),
            SortedSeq(windows), currentIndex, TRUE))
    ELSE s

\* Variant: the workspace at the lower index is moved up first, then the
\* displaced one (now at the higher index - 1) is moved down.
reorderWorkspacesLowerFirst(s, currentIndex, targetIndex, windows) ==
    IF Halted(s) THEN s
    ELSE IF currentIndex < targetIndex THEN
        Catch(ForEachChange(
            reorderWorkspaceAt(reorderWorkspaceAt(s, currentIndex, targetIndex),
                               targetIndex - 1, currentIndex),
            SortedSeq(windows), currentIndex, TRUE))
    ELSE IF currentIndex > targetIndex THEN
        Catch(ForEachChange(
            reorderWorkspaceAt(reorderWorkspaceAt(s, targetIndex, currentIndex),
                               currentIndex - 1, targetIndex),
            SortedSeq(windows), currentIndex, TRUE))
    ELSE s

reorderWorkspaces(s, currentIndex, targetIndex, windows) ==
    IF Halted(s) THEN s
    ELSE IF currentIndex < targetIndex THEN
        Catch(ForEachChange(
            reorderWorkspaceAt(reorderWorkspaceAt(s, targetIndex, currentIndex),
                               currentIndex + 1, targetIndex),
            SortedSeq(windows), currentIndex, TRUE))
    ELSE IF currentIndex > targetIndex THEN
        Catch(ForEachChange(
            reorderWorkspaceAt(reorderWorkspaceAt(s, currentIndex, targetIndex),
                               targetIndex + 1, currentIndex),
            SortedSeq(windows), currentIndex, TRUE))
    ELSE s

\* Variant: the monitor of the window is not looked at, the free workspace
\* is the one of the primary monitor.
handlePrimaryMonitorPlacementAnyMonitor(s, w, currentIndex, monitor, otherWindows) ==
    IF Halted(s) THEN s
    ELSE LET firstFree == getFirstFreeWorkspace(s, get_primary_monitor)
         IN  IF firstFree = NotFound THEN s
             ELSE markWindowAsPlaced(
                    reorderWorkspaces(Enter(s, "reorder"), currentIndex, firstFree, otherWindows),
                    w, currentIndex)

\* Variant: the record is written also when no workspace is free.
handlePrimaryMonitorPlacementMarkFirst(s, w, currentIndex, monitor, otherWindows) ==
    IF Halted(s) THEN s
    ELSE IF monitor # get_primary_monitor THEN s
    ELSE LET firstFree == getFirstFreeWorkspace(s, monitor)
         IN  IF firstFree = NotFound THEN markWindowAsPlaced(s, w, currentIndex)
             ELSE markWindowAsPlaced(
                    reorderWorkspaces(Enter(s, "reorder"), currentIndex, firstFree, otherWindows),
                    w, currentIndex)

handlePrimaryMonitorPlacement(s, w, currentIndex, monitor, otherWindows) ==
    IF Halted(s) THEN s
    ELSE IF monitor # get_primary_monitor THEN s
    ELSE LET firstFree == getFirstFreeWorkspace(s, monitor)
         IN  IF firstFree = NotFound THEN s
             ELSE markWindowAsPlaced(
                    reorderWorkspaces(Enter(s, "reorder"), currentIndex, firstFree, otherWindows),
                    w, currentIndex)

\* Variant: the windows of the free workspace are not taken back to its index.
handleMultiMonitorPlacementOneWay(s, w, currentIndex, monitor, otherWindows) ==
    IF Halted(s) THEN s
    ELSE LET firstFree == getFirstFreeWorkspace(s, monitor)
         IN  IF firstFree = NotFound THEN s
             ELSE markWindowAsPlaced(
                    reorderWorkspaces(Enter(s, "reorder"), currentIndex, firstFree,
                                      otherWindowsOfWorkspace(s, get_workspace(s, w), w)),
                    w, currentIndex)

handleMultiMonitorPlacement(s, w, currentIndex, monitor, otherWindows) ==
    IF Halted(s) THEN s
    ELSE LET firstFree == getFirstFreeWorkspace(s, monitor)
         IN  IF firstFree = NotFound THEN s
             ELSE LET currentWindows ==
                          otherWindowsOfWorkspace(s, get_workspace(s, w), w)
                      freeWorkspaceWindows ==
                          otherWindowsOfWorkspace(s, get_workspace_by_index(s, firstFree), w)
                  IN  markWindowAsPlaced(
                        ForEachChange(
                            reorderWorkspaces(Enter(s, "reorder"), currentIndex, firstFree,
                                              currentWindows),
                            SortedSeq(freeWorkspaceWindows), firstFree, TRUE),
                        w, currentIndex)

\* this._moveWindowToWorkspace(window, emptyWorkspace.index(), manager)
moveWindowToWorkspaceOf(s, w, emptyWorkspace) ==
    moveWindowToWorkspace(s, w, index(s, emptyWorkspace))

\* this._placedWindows.set(windowId, {mode: 'insert', homeWorkspaceIndex})
markWindowAsInserted(s, w, originalIndex) ==
    IF Halted(s) THEN s
    ELSE [s EXCEPT !.placed[w] =
            [mode |-> "insert", homeWorkspaceIndex |-> originalIndex,
             home |-> homeIdentity(s, originalIndex)],
                   !.path = IF s.placed[w] = NoRecord THEN @ ELSE Append(@, "replace")]

\* Variant: a window on the last workspace is placed like any other.
placeWindowByInsertingAfterCurrentAnywhere(s, w, originalIndex) ==
    IF Halted(s) THEN s
    ELSE LET monitor == s.mon[w]
             lastEmpty == getLastCompletelyEmptyWorkspace(s)
             emptyIndex == IF lastEmpty = NotFound
                           THEN getFirstFreeWorkspace(s, monitor) ELSE lastEmpty
         IN  IF emptyIndex = NotFound THEN
                 LET otherWindows ==
                         getOtherWindowsOnMonitor(s, get_workspace(s, w), w, monitor)
                 IN  IF isWorkspacesOnlyOnPrimary(s)
                     THEN handlePrimaryMonitorPlacement(s, w, originalIndex, monitor, otherWindows)
                     ELSE handleMultiMonitorPlacement(s, w, originalIndex, monitor, otherWindows)
             ELSE LET targetIndex == originalIndex + 1
                      emptyWorkspace == get_workspace_by_index(s, emptyIndex)
                  IN  markWindowAsInserted(
                        moveWindowToWorkspaceOf(
                            IF emptyIndex # targetIndex
                            THEN reorder_workspace(Enter(s, "insert"), emptyWorkspace, targetIndex)
                            ELSE Enter(s, "insert"),
                            w, emptyWorkspace),
                        w, originalIndex)

placeWindowByInsertingAfterCurrent(s, w, originalIndex) ==
    IF Halted(s) THEN s
    ELSE IF originalIndex >= get_n_workspaces(s) - 1 THEN s
    ELSE LET monitor == s.mon[w]
             lastEmpty == getLastCompletelyEmptyWorkspace(s)
             emptyIndex == IF lastEmpty = NotFound
                           THEN getFirstFreeWorkspace(s, monitor) ELSE lastEmpty
         IN  IF emptyIndex = NotFound THEN
                 LET otherWindows ==
                         getOtherWindowsOnMonitor(s, get_workspace(s, w), w, monitor)
                 IN  IF isWorkspacesOnlyOnPrimary(s)
                     THEN handlePrimaryMonitorPlacement(s, w, originalIndex, monitor, otherWindows)
                     ELSE handleMultiMonitorPlacement(s, w, originalIndex, monitor, otherWindows)
             ELSE LET targetIndex == originalIndex + 1
                      emptyWorkspace == get_workspace_by_index(s, emptyIndex)
                  IN  markWindowAsInserted(
                        moveWindowToWorkspaceOf(
                            IF emptyIndex # targetIndex
                            THEN reorder_workspace(Enter(s, "insert"), emptyWorkspace, targetIndex)
                            ELSE Enter(s, "insert"),
                            w, emptyWorkspace),
                        w, originalIndex)

placeWindowOnWorkspaceInternal(s, w) ==
    LET monitor == s.mon[w]
        currentWorkspace == get_workspace(s, w)
        otherWindows == getOtherWindowsOnMonitor(s, currentWorkspace, w, monitor)
        currentIndex == index(s, currentWorkspace)
    IN  IF otherWindows = {} THEN s
        ELSE IF isInsertAfterCurrentEnabled(s)
             THEN placeWindowByInsertingAfterCurrent(s, w, currentIndex)
        ELSE IF isWorkspacesOnlyOnPrimary(s)
             THEN handlePrimaryMonitorPlacement(s, w, currentIndex, monitor, otherWindows)
        ELSE handleMultiMonitorPlacement(s, w, currentIndex, monitor, otherWindows)

\* this._pendingOperations.add(windowId)
takeGuard(s, w) == [s EXCEPT !.pendingOps = @ \cup {w}]

\* Variant: the guard is released at the end of the try block, not in finally.
releaseGuardInTry(s, w) ==
    IF s.stopped \/ s.threw THEN s ELSE [s EXCEPT !.pendingOps = @ \ {w}]

\* finally { this._pendingOperations.delete(windowId) }
releaseGuard(s, w) ==
    IF s.stopped THEN s ELSE [s EXCEPT !.pendingOps = @ \ {w}]

\* Variant: placeWindowOnWorkspace without the test of the guard.
placeWindowOnWorkspaceUnguarded(s, w) ==
    IF ~validateWindow(s, w) THEN s
    ELSE releaseGuard(
            Catch(placeWindowOnWorkspaceInternal(Enter(takeGuard(s, w), "place"), w)),
            w)

placeWindowOnWorkspace(s, w) ==
    IF ~validateWindow(s, w) THEN s
    ELSE IF w \in s.pendingOps THEN s
    ELSE releaseGuard(
            Catch(placeWindowOnWorkspaceInternal(Enter(takeGuard(s, w), "place"), w)),
            w)

\* Variant: the windows of the occupied workspace are left on it.
handlePrimaryMonitorReturnAlone(s, w, currentIndex, monitor) ==
    IF Halted(s) THEN s
    ELSE IF monitor # get_primary_monitor THEN s
    ELSE LET lastOccupied == getLastOccupiedWorkspace(s, currentIndex, monitor)
         IN  IF lastOccupied = NotFound THEN s
             ELSE reorder_workspace(Enter(s, "swapback"),
                      get_workspace_by_index(s, currentIndex), lastOccupied)

handlePrimaryMonitorReturn(s, w, currentIndex, monitor) ==
    IF Halted(s) THEN s
    ELSE IF monitor # get_primary_monitor THEN s
    ELSE LET lastOccupied == getLastOccupiedWorkspace(s, currentIndex, monitor)
         IN  IF lastOccupied = NotFound THEN s
             ELSE LET occupiedWindows ==
                          getOtherWindowsOnMonitor(
                              s, get_workspace_by_index(s, lastOccupied), w, monitor)
                      a == reorder_workspace(Enter(s, "swapback"),
                              get_workspace_by_index(s, currentIndex), lastOccupied)
                  IN  ForEachChange(a, SortedSeq(occupiedWindows), lastOccupied, FALSE)

handleMultiMonitorReturn(s, w, currentIndex, monitor) ==
    IF Halted(s) THEN s
    ELSE LET lastOccupied == getLastOccupiedWorkspace(s, currentIndex, monitor)
         IN  IF lastOccupied = NotFound THEN s
             ELSE IF otherWindowsOfWorkspace(s, get_workspace(s, w), w) # {} THEN s
             ELSE LET occupiedWindows ==
                          otherWindowsOfWorkspace(
                              s, get_workspace_by_index(s, lastOccupied), w)
                      a == reorder_workspace(Enter(s, "swapback"),
                              get_workspace_by_index(s, currentIndex), lastOccupied)
                  IN  ForEachChange(a, SortedSeq(occupiedWindows), lastOccupied, FALSE)

\* Variant: with other windows present the fallback returns without the
\* deferred focus.
returnWindowUsingFallbackLogicNoFocus(s, w) ==
    IF Halted(s) THEN s
    ELSE LET monitor == s.mon[w]
             currentWorkspace == get_workspace(s, w)
             otherWindows == getOtherWindowsOnMonitor(s, currentWorkspace, w, monitor)
             currentIndex == index(s, currentWorkspace)
         IN  IF otherWindows # {} THEN s
             ELSE IF isWorkspacesOnlyOnPrimary(s)
                  THEN handlePrimaryMonitorReturn(s, w, currentIndex, monitor)
             ELSE handleMultiMonitorReturn(s, w, currentIndex, monitor)

returnWindowUsingFallbackLogic(s, w) ==
    IF Halted(s) THEN s
    ELSE LET monitor == s.mon[w]
             currentWorkspace == get_workspace(s, w)
             otherWindows == getOtherWindowsOnMonitor(s, currentWorkspace, w, monitor)
             currentIndex == index(s, currentWorkspace)
         IN  IF otherWindows # {} THEN focusMovedWindow(s, w)
             ELSE IF isWorkspacesOnlyOnPrimary(s)
                  THEN handlePrimaryMonitorReturn(s, w, currentIndex, monitor)
             ELSE handleMultiMonitorReturn(s, w, currentIndex, monitor)

\* Variant: the recorded index is used without the test of its range.
returnWindowToHomeWorkspaceUnchecked(s, w, placedInfo) ==
    IF Halted(s) THEN s
    ELSE moveWindowToWorkspace(Enter(s, "home"), w, placedInfo.homeWorkspaceIndex)

returnWindowToHomeWorkspaceOrFallback(s, w, placedInfo) ==
    IF Halted(s) THEN s
    ELSE LET homeIndex == placedInfo.homeWorkspaceIndex
         IN  IF /\ homeIndex >= 0
                /\ homeIndex < get_n_workspaces(s)
                /\ get_workspace_by_index(s, homeIndex) # NoWorkspace
             THEN moveWindowToWorkspace(Enter(s, "home"), w, homeIndex)
             ELSE returnWindowUsingFallbackLogic(Enter(s, "fallback"), w)

\* Variant: restore leaves the record in place.
keepRecord(s, w) == s

\* this._placedWindows.delete(windowId), first thing in the try block
consumeRecord(s, w) == [s EXCEPT !.placed[w] = NoRecord]

\* Variant: the record is deleted after the work, at the end of the try block.
returnWindowToOldWorkspaceDeleteLast(s, w) ==
    IF ~validateWindow(s, w) THEN s
    ELSE IF w \in s.pendingOps THEN s
    ELSE LET placedInfo == s.placed[w]
         IN  IF placedInfo = NoRecord THEN s
             ELSE releaseGuard(
                    Catch(forgetWindow(
                        returnWindowToHomeWorkspaceOrFallback(
                            Enter(takeGuard(s, w), "restore"), w, placedInfo),
                        w)),
                    w)

returnWindowToOldWorkspace(s, w) ==
    IF ~validateWindow(s, w) THEN s
    ELSE IF w \in s.pendingOps THEN s
    ELSE LET placedInfo == s.placed[w]
         IN  IF placedInfo = NoRecord THEN s
             ELSE releaseGuard(
                    Catch(returnWindowToHomeWorkspaceOrFallback(
                        consumeRecord(Enter(takeGuard(s, w), "restore"), w),
                        w, placedInfo)),
                    w)

(* ---------------------- handlers under a script ------------------------ *)

\* What a re-entrant call may change.
Snapshot(s) == <<s.order, s.wsOf, s.active, s.placed, s.pendingOps, s.calls, s.path>>

EngineCall(op, s, w) ==
    IF op = "place" THEN placeWindowOnWorkspace(s, w)
    ELSE returnWindowToOldWorkspace(s, w)

\* The state in which the host calls back: the handler op(w) run up to and
\* with its h.at-th host side effect.
MidFlight(op, w, h) ==
    EngineCall(op, Start([at |-> h.at, kind |-> "stop", win |-> h.win]), w)

\* The state the call back h.kind(h.win) leaves, made in state mid.
CalledBack(mid, h) ==
    EngineCall(h.kind, [mid EXCEPT !.stopped = FALSE, !.hook = NoHook], h.win)

\* The handler op(w) run to its end with the call back made after its h.at-th
\* host side effect, and what the call back did: whether the guard held its
\* window, and whether it changed anything.
Resumed(op, w, h, mid, back) ==
    [run |-> EngineCall(op, [Start([at |-> h.at, kind |-> "inject", win |-> h.win])
                                EXCEPT !.inj = back], w),
     re  |-> [op |-> h.kind, win |-> h.win,
              guarded |-> h.win \in mid.pendingOps,
              changed |-> Snapshot(back) # Snapshot(mid)]]

Scripted(op, w, h, mid) ==
    IF h.kind \in {"place", "restore"} /\ mid.stopped
    THEN Resumed(op, w, h, mid, CalledBack(mid, h))
    ELSE [run |-> EngineCall(op, Start(h), w), re |-> NoReentry]

\* The handler op(w) run to its end under the script h.
RunScripted(op, w, h) == Scripted(op, w, h, MidFlight(op, w, h))

(* ----------------------------- WindowFilter ---------------------------- *)

\* id.toLowerCase()
toLowerCase(id) ==
    [i \in 1..Len(id) |->
        CASE id[i] = "A" -> "a"
          [] id[i] = "B" -> "b"
          [] id[i] = "C" -> "c"
          [] id[i] = ".Desktop" -> ".desktop"
          [] OTHER -> id[i]]

\* lower.endsWith('.desktop') ? lower.slice(0, -8) : lower
stripDesktop(lower) ==
    IF lower # <<>> /\ lower[Len(lower)] = ".desktop"
    THEN SubSeq(lower, 1, Len(lower) - 1)
    ELSE lower

\* Variant: the case of the letters is kept.
normalizeIdKeepCase(id) == IF id = <<>> THEN <<>> ELSE stripDesktop(id)

normalizeId(id) == IF id = <<>> THEN <<>> ELSE stripDesktop(toLowerCase(id))

toNormalizedSet(list) == {normalizeId(id) : id \in list} \ {<<>>}

\* id.trim(): the string without the white space at its ends.
trim(id) ==
    LET inked == {i \in 1..Len(id) : id[i] # " "}
    IN  IF inked = {} THEN <<>>
        ELSE SubSeq(id, CHOOSE i \in inked : \A j \in inked : i <= j,
                        CHOOSE i \in inked : \A j \in inked : j <= i)

getWindowAppId(s, w) ==
    LET candidates == s.appIds[w]
        named == {i \in 1..Len(candidates) : trim(candidates[i]) # <<>>}
    IN  IF named = {} THEN <<>>
        ELSE trim(candidates[CHOOSE i \in named : \A j \in named : i <= j])

\* WindowFilter._validateWindow: get_id() and get_workspace() do not throw.
filterValidateWindow(s, w) == IsAlive(s, w)

isNormalWindow(s, w) ==
    /\ filterValidateWindow(s, w)
    /\ s.type[w] = "NORMAL"
    /\ ~is_always_on_all_workspaces(s, w)

\* Variant: an empty allow list lets every window with an id through.
isAppAllowedEmptyListOpen(s, w) ==
    LET appId == normalizeId(getWindowAppId(s, w))
    IN  IF s.filter.mode = "whitelist"
        THEN /\ appId # <<>>
             /\ \/ toNormalizedSet(s.filter.whitelist) = {}
                \/ appId \in toNormalizedSet(s.filter.whitelist)
        ELSE IF s.filter.mode = "blacklist"
        THEN appId = <<>> \/ appId \notin toNormalizedSet(s.filter.blacklist)
        ELSE TRUE

\* Variant: a window without an id is never let through.
isAppAllowedKnownOnly(s, w) ==
    LET appId == normalizeId(getWindowAppId(s, w))
    IN  /\ appId # <<>>
        /\ IF s.filter.mode = "whitelist"
           THEN appId \in toNormalizedSet(s.filter.whitelist)
           ELSE IF s.filter.mode = "blacklist"
           THEN appId \notin toNormalizedSet(s.filter.blacklist)
           ELSE TRUE

isAppAllowed(s, w) ==
    LET appId == normalizeId(getWindowAppId(s, w))
    IN  IF s.filter.mode = "whitelist"
        THEN /\ toNormalizedSet(s.filter.whitelist) # {}
             /\ appId # <<>>
             /\ appId \in toNormalizedSet(s.filter.whitelist)
        ELSE IF s.filter.mode = "blacklist"
        THEN appId = <<>> \/ appId \notin toNormalizedSet(s.filter.blacklist)
        ELSE TRUE

isManagedWindow(s, w) ==
    filterValidateWindow(s, w) /\ isNormalWindow(s, w) /\ isAppAllowed(s, w)

getTriggerOnMaximizeEnabled(s) == s.triggerOnMaximize

getTriggerOnFullscreenEnabled(s) == s.triggerOnFullscreen

shouldPlaceOnNewWorkspace(s, w) ==
    /\ isManagedWindow(s, w)
    /\ \/ getTriggerOnMaximizeEnabled(s) /\ w \in s.max
       \/ getTriggerOnFullscreenEnabled(s) /\ w \in s.full

\* Variant: a fullscreen size change places the window whatever the
\* fullscreen trigger says.
shouldPlaceOnSizeChangeAnyFullscreen(s, w, change) ==
    /\ isManagedWindow(s, w)
    /\ \/ getTriggerOnMaximizeEnabled(s) /\ change = "MAXIMIZE" /\ w \in s.max
       \/ change = "FULLSCREEN"

shouldPlaceOnSizeChange(s, w, change) ==
    /\ isManagedWindow(s, w)
    /\ \/ getTriggerOnMaximizeEnabled(s) /\ change = "MAXIMIZE" /\ w \in s.max
       \/ getTriggerOnFullscreenEnabled(s) /\ change = "FULLSCREEN"

\* window.get_work_area_for_monitor(monitor): the monitor without the panel.
get_work_area_for_monitor(monitor) ==
    IF monitor = get_primary_monitor
    THEN [x |-> 0, y |-> 1, width |-> 4, height |-> 2]
    ELSE [x |-> 4, y |-> 0, width |-> 4, height |-> 3]

\* The whole monitor, which a fullscreen window covers.
get_monitor_geometry(monitor) ==
    IF monitor = get_primary_monitor
    THEN [x |-> 0, y |-> 0, width |-> 4, height |-> 3]
    ELSE [x |-> 4, y |-> 0, width |-> 4, height |-> 3]

\* The rectangle of a window that is neither maximized nor fullscreen.
FloatingRect(monitor) ==
    [x |-> get_work_area_for_monitor(monitor).x + 1, y |-> 1, width |-> 2, height |-> 1]

\* The rectangle of the window before a size change (oldRect of the
\* size-change signal).
get_frame_rect(s, w) ==
    IF w \in s.max THEN get_work_area_for_monitor(s.mon[w])
    ELSE IF w \in s.full THEN get_monitor_geometry(s.mon[w])
    ELSE FloatingRect(s.mon[w])

\* Meta.Rectangle.equal
rectEqual(a, b) ==
    a.x = b.x /\ a.y = b.y /\ a.width = b.width /\ a.height = b.height

\* Variant: an unmaximize returns the window whatever its rectangle was.
shouldReturnOnSizeChangeAnyRect(s, w, change, oldRect) ==
    /\ isManagedWindow(s, w)
    /\ \/ getTriggerOnMaximizeEnabled(s) /\ change = "UNMAXIMIZE"
       \/ /\ getTriggerOnFullscreenEnabled(s)
          /\ change = "UNFULLSCREEN"
          /\ (~getTriggerOnMaximizeEnabled(s) \/ w \notin s.max)

shouldReturnOnSizeChange(s, w, change, oldRect) ==
    /\ isManagedWindow(s, w)
    /\ \/ /\ getTriggerOnMaximizeEnabled(s)
          /\ change = "UNMAXIMIZE"
          /\ rectEqual(get_work_area_for_monitor(s.mon[w]), oldRect)
       \/ /\ getTriggerOnFullscreenEnabled(s)
          /\ change = "UNFULLSCREEN"
          /\ (~getTriggerOnMaximizeEnabled(s) \/ w \notin s.max)

(* --------------------------- WindowEventHandler ------------------------ *)

\* _getWindowFromActor(actor) returns a window: the actor still has one, and
\* its get_id() does not throw.
getWindowFromActor(s, w, queryable) == queryable /\ IsAlive(s, w)

onWindowMap(s, w) ==
    IF ~getWindowFromActor(s, w, TRUE) THEN s
    ELSE IF shouldPlaceOnNewWorkspace(s, w)
         THEN Catch(placeWindowOnWorkspace(Enter(s, "map"), w))
    ELSE Enter(s, "map")

\* Variant: the pending action is dropped only for a window the filter manages.
dropPendingActionIfManaged(s, w) ==
    IF isManagedWindow(s, w) THEN [s EXCEPT !.pendingActions[w] = NoAction] ELSE s

\* this._pendingActions.delete(windowId) in onWindowDestroy; the history keeps
\* whether there was an entry to drop.
dropPendingAction(s, w) ==
    IF s.pendingActions[w] = NoAction THEN s
    ELSE [Enter(s, "dropped") EXCEPT !.pendingActions[w] = NoAction]

onWindowDestroy(s, w, queryable) ==
    IF ~getWindowFromActor(s, w, queryable) THEN s
    ELSE IF ~isManagedWindow(s, w)
         THEN Enter(dropPendingAction(Enter(s, "destroy"), w), "unmanaged")
    ELSE forgetWindow(dropPendingAction(Enter(s, "destroy"), w), w)

onWindowUnminimize(s, w) ==
    IF ~getWindowFromActor(s, w, TRUE) THEN s
    ELSE IF shouldPlaceOnNewWorkspace(s, w)
         THEN Catch(placeWindowOnWorkspace(Enter(s, "unminimize"), w))
    ELSE Enter(s, "unminimize")

\* Variant: minimize also clears the pending action of the window.
onWindowMinimizeClearingPending(s, w) ==
    IF ~getWindowFromActor(s, w, TRUE) THEN s
    ELSE IF ~isManagedWindow(s, w) THEN Enter(s, "minimize")
    ELSE Catch(returnWindowToOldWorkspace(
                   [Enter(s, "minimize") EXCEPT !.pendingActions[w] = NoAction], w))

onWindowMinimize(s, w) ==
    IF ~getWindowFromActor(s, w, TRUE) THEN s
    ELSE IF ~isManagedWindow(s, w) THEN Enter(s, "minimize")
    ELSE Catch(returnWindowToOldWorkspace(Enter(s, "minimize"), w))

\* The modifier key of each value of the override-modifier setting; any other
\* value, and a missing key, give the empty mask.
getOverrideModifierMask(choice) ==
    IF choice \in {"alt", "super", "ctrl", "shift"} THEN {choice} ELSE {}

\* mods: the modifier keys held according to global.get_pointer().
isOverrideModifierPressed(choice, mods) ==
    getOverrideModifierMask(choice) # {} /\ mods \cap getOverrideModifierMask(choice) # {}

\* Variant: the override modifier is never honoured.
neverBypass(change, overridePressed) == FALSE

\* Variant: the override modifier is honoured for every kind of size change.
bypassEveryChange(change, overridePressed) == overridePressed

\* overridePressed: the configured override modifier is held.
shouldBypassForOverrideModifier(change, overridePressed) ==
    change \in {"MAXIMIZE", "FULLSCREEN"} /\ overridePressed

onWindowSizeChange(s, w, change, oldRect, overridePressed) ==
    IF ~getWindowFromActor(s, w, TRUE) THEN s
    ELSE IF shouldBypassForOverrideModifier(change, overridePressed)
         THEN Enter(s, "bypass")
    ELSE IF shouldPlaceOnSizeChange(s, w, change)
         THEN [Enter(Enter(s, "begin"), "set") EXCEPT !.pendingActions[w] = MARKER_PLACE]
    ELSE IF shouldReturnOnSizeChange(s, w, change, oldRect)
         THEN [Enter(Enter(s, "begin"), "set") EXCEPT !.pendingActions[w] = MARKER_BACK]
    ELSE Enter(s, "begin")

\* this._pendingActions.delete(windowId)
\* Variant: the pending action is read but stays in the map.
keepPendingAction(s, w) == s

takePendingAction(s, w) == [s EXCEPT !.pendingActions[w] = NoAction]

onWindowSizeChanged(s, w) ==
    IF ~getWindowFromActor(s, w, TRUE) THEN s
    ELSE IF s.pendingActions[w] = NoAction THEN s
    ELSE IF s.pendingActions[w] = MARKER_PLACE
         THEN Catch(placeWindowOnWorkspace(Enter(takePendingAction(s, w), "end"), w))
    ELSE Catch(returnWindowToOldWorkspace(Enter(takePendingAction(s, w), "end"), w))

(* --------------------------- the main loop ----------------------------- *)

\* An idle source of _focusMovedWindow: the window it is to focus and which
\* of the two nested callbacks it is (1: the outer one, 2: the inner one).
\* A specification that leaves the main loop out keeps idleSources at
\* IdleUnwatched and runs no source.
IdleUnwatched == <<[win |-> 0, turn |-> 0]>>

\* GLib.idle_add: the sources the calls of a handler added, behind those
\* waiting already (one priority, first in first out).
Schedule(sources, calls) ==
    IF sources = IdleUnwatched THEN sources
    ELSE LET added == SelectSeq(calls, LAMBDA c : c[1] = "idle_add")
         IN  sources \o [i \in 1..Len(added) |->
                            [win |-> added[i][2], turn |-> added[i][3] + 1]]

(* ------------------------------ actions -------------------------------- *)

HostTrace ==
    [op |-> "host", win |-> 0, calls |-> <<>>, path |-> <<>>,
     re |-> NoReentry, threw |-> FALSE]

\* The state after a handler ran to its end, and what it did.
Commit(x, op, w) ==
    /\ order' = x.run.order
    /\ wsOf' = x.run.wsOf
    /\ active' = x.run.active
    /\ placed' = x.run.placed
    /\ pendingOps' = x.run.pendingOps
    /\ pendingActions' = x.run.pendingActions
    /\ idleSources' = Schedule(idleSources, x.run.calls)
    /\ tr' = [op |-> op, win |-> w, calls |-> x.run.calls, path |-> x.run.path,
              re |-> x.re, threw |-> x.run.threw]
    /\ UNCHANGED config

\* The coordinator hands the engine windows its filter manages.
Manageable(w) == isManagedWindow(Cur, w)

\* The user can drag a window that sits on one workspace.
Movable(w) == IsAlive(Cur, w) /\ ~on_all_workspaces(Cur, w)

\* place(w): WindowPlacementHandler.placeWindowOnWorkspace(window)
PlaceWindow(w, h) ==
    /\ Manageable(w)
    /\ Commit(RunScripted("place", w, h), "place", w)
    /\ UNCHANGED <<windowState, settings>>

\* restore(w): WindowPlacementHandler.returnWindowToOldWorkspace(window)
ReturnWindow(w, h) ==
    /\ Manageable(w)
    /\ Commit(RunScripted("restore", w, h), "restore", w)
    /\ UNCHANGED <<windowState, settings>>

\* The user moves window w to the workspace at index i.
HostMoveWindow(w, i) ==
    /\ Movable(w)
    /\ i \in 0..(Len(order) - 1)
    /\ order[i + 1] # wsOf[w]
    /\ wsOf' = [wsOf EXCEPT ![w] = order[i + 1]]
    /\ tr' = HostTrace
    /\ UNCHANGED <<order, active, placed, pendingOps, pendingActions, idleSources,
                   config, windowState, settings>>

\* The host appends an empty workspace.
HostAppendWorkspace ==
    /\ Len(order) < MaxWorkspaces
    /\ order' = Append(order, CHOOSE id \in WorkspaceIds \ Range(order) :
                                \A other \in WorkspaceIds \ Range(order) : id <= other)
    /\ tr' = HostTrace
    /\ UNCHANGED <<wsOf, active, placed, pendingOps, pendingActions, idleSources,
                   config, windowState, settings>>

\* The host removes the empty workspace at index i (dynamic workspaces, or a
\* lowered workspace count); the active workspace passes to a neighbour.
HostRemoveWorkspace(i) ==
    /\ Len(order) > 1
    /\ i \in 0..(Len(order) - 1)
    /\ \A w \in list_windows(Cur, order[i + 1]) : on_all_workspaces(Cur, w)
    /\ order' = SubSeq(order, 1, i) \o SubSeq(order, i + 2, Len(order))
    /\ active' = IF active # order[i + 1] THEN active
                 ELSE IF i > 0 THEN order[i] ELSE order[2]
    /\ tr' = HostTrace
    /\ UNCHANGED <<wsOf, placed, pendingOps, pendingActions, idleSources,
                   config, windowState, settings>>

\* The user switches to the workspace at index i.
HostActivateWorkspace(i) ==
    /\ i \in 0..(Len(order) - 1)
    /\ order[i + 1] # active
    /\ active' = order[i + 1]
    /\ tr' = HostTrace
    /\ UNCHANGED <<order, wsOf, placed, pendingOps, pendingActions, idleSources,
                   config, windowState, settings>>

\* The main loop is idle and dispatches its oldest idle source; the source
\* is removed, as its callback returns GLib.SOURCE_REMOVE.
IdleTurn(h) ==
    /\ idleSources # IdleUnwatched
    /\ idleSources # <<>>
    /\ idleSources' =
          Schedule(Tail(idleSources),
                   IF Head(idleSources).turn = 1
                   THEN focusOuterCallback(Start(h), Head(idleSources).win).calls
                   ELSE focusInnerCallback(Start(h), Head(idleSources).win).calls)
    /\ tr' = IF Head(idleSources).turn = 1
             THEN [op |-> "idle", win |-> Head(idleSources).win,
                   calls |-> focusOuterCallback(Start(h), Head(idleSources).win).calls,
                   path |-> <<>>, re |-> NoReentry, threw |-> FALSE]
             ELSE [op |-> "idle", win |-> Head(idleSources).win,
                   calls |-> focusInnerCallback(Start(h), Head(idleSources).win).calls,
                   path |-> focusInnerCallback(Start(h), Head(idleSources).win).path,
                   re |-> NoReentry,
                   threw |-> focusInnerCallback(Start(h), Head(idleSources).win).threw]
    /\ UNCHANGED <<order, wsOf, active, placed, pendingOps, pendingActions,
                   config, windowState, settings>>

(* ------------------------------- events -------------------------------- *)

\* A handler of the coordinator ran to its end.
Handled(r, op, w) == Commit([run |-> r, re |-> NoReentry], op, w)

Shown(w) == IsAlive(Cur, w) /\ w \notin winMin

\* Setting of the override modifier and keys held at the time of an event.
PointerInputs ==
    {[choice |-> "none", mods |-> {"alt"}],
     [choice |-> "alt", mods |-> {}],
     [choice |-> "alt", mods |-> {"alt", "shift"}],
     [choice |-> "shift", mods |-> {"alt", "ctrl"}]}

\* The history keeps that the override modifier was held during the event.
Held(s, overridePressed) == IF overridePressed THEN Enter(s, "held") ELSE s

\* A window is created on the active workspace, maximized or not ("map").
WindowMap(w, maximized) ==
    /\ w \in unmapped
    /\ unmapped' = unmapped \ {w}
    /\ winMax' = IF maximized THEN winMax \cup {w} ELSE winMax
    /\ Handled(onWindowMap([Cur EXCEPT !.wsOf[w] = active,
                                       !.max = IF maximized THEN @ \cup {w} ELSE @], w),
               "map", w)
    /\ UNCHANGED <<winFull, winMin, settings>>

\* The user maximizes a window, fully or to one side ("size-change",
\* MAXIMIZE), with the override modifier held or not.
WindowMaximize(w, fully, overridePressed) ==
    /\ Shown(w) /\ w \notin winMax
    /\ winMax' = IF fully THEN winMax \cup {w} ELSE winMax
    /\ Handled(onWindowSizeChange(
                   Held([Cur EXCEPT !.max = IF fully THEN @ \cup {w} ELSE @], overridePressed),
                   w, "MAXIMIZE", get_frame_rect(Cur, w), overridePressed),
               "maximize", w)
    /\ UNCHANGED <<winFull, winMin, unmapped, settings>>

\* A window leaves the maximized state, or a window that was maximized to one
\* side leaves that ("size-change", UNMAXIMIZE); only a fully maximized window
\* filled the work area.
WindowUnmaximize(w, overridePressed) ==
    /\ Shown(w)
    /\ winMax' = winMax \ {w}
    /\ Handled(onWindowSizeChange(Held([Cur EXCEPT !.max = @ \ {w}], overridePressed),
                                  w, "UNMAXIMIZE", get_frame_rect(Cur, w), overridePressed),
               "unmaximize", w)
    /\ UNCHANGED <<winFull, winMin, unmapped, settings>>

\* "size-change", FULLSCREEN
WindowFullscreen(w, overridePressed) ==
    /\ Shown(w) /\ w \notin winFull
    /\ winFull' = winFull \cup {w}
    /\ Handled(onWindowSizeChange(Held([Cur EXCEPT !.full = @ \cup {w}], overridePressed),
                                  w, "FULLSCREEN", get_frame_rect(Cur, w), overridePressed),
               "fullscreen", w)
    /\ UNCHANGED <<winMax, winMin, unmapped, settings>>

\* "size-change", UNFULLSCREEN
WindowUnfullscreen(w, overridePressed) ==
    /\ Shown(w) /\ w \in winFull
    /\ winFull' = winFull \ {w}
    /\ Handled(onWindowSizeChange(Held([Cur EXCEPT !.full = @ \ {w}], overridePressed),
                                  w, "UNFULLSCREEN", get_frame_rect(Cur, w), overridePressed),
               "unfullscreen", w)
    /\ UNCHANGED <<winMax, winMin, unmapped, settings>>

\* "size-changed": a size change of the window is complete; the signal also
\* comes for size changes that left no pending action.
WindowSizeChanged(w) ==
    /\ Shown(w)
    /\ Handled(onWindowSizeChanged(Cur, w), "size-changed", w)
    /\ UNCHANGED <<windowState, settings>>

\* "minimize"
WindowMinimize(w) ==
    /\ Shown(w)
    /\ winMin' = winMin \cup {w}
    /\ Handled(onWindowMinimize(Cur, w), "minimize", w)
    /\ UNCHANGED <<winMax, winFull, unmapped, settings>>

\* "unminimize"
WindowUnminimize(w) ==
    /\ IsAlive(Cur, w) /\ w \in winMin
    /\ winMin' = winMin \ {w}
    /\ Handled(onWindowUnminimize(Cur, w), "unminimize", w)
    /\ UNCHANGED <<winMax, winFull, unmapped, settings>>

\* The window is gone after its "destroy" was handled.
Gone(r, w) == [r EXCEPT !.wsOf[w] = NoWorkspace]

\* "destroy": the window is closed; its actor may have lost the window
\* already (queryable = FALSE).
WindowDestroy(w, queryable) ==
    /\ IsAlive(Cur, w)
    /\ Handled(Gone(onWindowDestroy(Cur, w, queryable), w), "destroy", w)
    /\ winMax' = winMax \ {w}
    /\ winFull' = winFull \ {w}
    /\ winMin' = winMin \ {w}
    /\ UNCHANGED <<unmapped, settings>>

Quiescent ==
    UNCHANGED <<order, wsOf, active, placed, pendingOps, pendingActions, idleSources,
                config, windowState>>

\* The user changes the application filter in the preferences.
SetFilter(f) ==
    /\ f # filter
    /\ filter' = f
    /\ tr' = HostTrace
    /\ Quiescent
    /\ UNCHANGED <<triggerOnMaximize, triggerOnFullscreen>>

SetTriggerOnMaximize(b) ==
    /\ b # triggerOnMaximize
    /\ triggerOnMaximize' = b
    /\ tr' = HostTrace
    /\ Quiescent
    /\ UNCHANGED <<triggerOnFullscreen, filter>>

SetTriggerOnFullscreen(b) ==
    /\ b # triggerOnFullscreen
    /\ triggerOnFullscreen' = b
    /\ tr' = HostTrace
    /\ Quiescent
    /\ UNCHANGED <<triggerOnMaximize, filter>>

(* --------------------------- specifications ---------------------------- *)

Layout ==
    /\ order = <<1, 2>>
    /\ wsOf = [w \in Windows |-> 1]
    /\ active = 1
    /\ winMon \in {[w \in Windows |-> "primary"],
                   [w \in Windows |-> IF w = 3 THEN "secondary" ELSE "primary"],
                   [w \in Windows |-> IF w = 1 THEN "primary" ELSE "secondary"]}
    /\ sticky \in {{}, {3}}
    /\ onlyPrimary \in BOOLEAN
    /\ insertAfter \in BOOLEAN
    /\ placed = [w \in Windows |-> NoRecord]
    /\ pendingOps = {}
    /\ tr = HostTrace

\* No window is maximized, no transition is pending, the settings are the
\* initial ones.
Quiet ==
    /\ winMax = {} /\ winFull = {} /\ winMin = {} /\ unmapped = {}
    /\ pendingActions = [w \in Windows |-> NoAction]
    /\ triggerOnMaximize = TRUE /\ triggerOnFullscreen = TRUE
    /\ filter = DefaultFilter
    /\ appIds = WindowAppId /\ winType = WindowType

Init == Layout /\ Quiet /\ trackHome = FALSE /\ idleSources = IdleUnwatched

HostNext ==
    \/ \E w \in Windows, i \in 0..(MaxWorkspaces - 1) : HostMoveWindow(w, i)
    \/ HostAppendWorkspace
    \/ \E i \in 0..(MaxWorkspaces - 1) : HostRemoveWorkspace(i)
    \/ \E i \in 0..(MaxWorkspaces - 1) : HostActivateWorkspace(i)

\* Host calls succeed and do not call back.
Next ==
    \/ \E w \in Windows : PlaceWindow(w, NoHook)
    \/ \E w \in Windows : ReturnWindow(w, NoHook)
    \/ HostNext

Spec == Init /\ [][Next]_vars

\* A host side effect of an event may throw, or call back into the engine.
NextReentrant ==
    \/ \E w \in ManagedWindows, h \in Hooks : PlaceWindow(w, h)
    \/ \E w \in ManagedWindows, h \in Hooks : ReturnWindow(w, h)
    \/ \E w \in ManagedWindows, i \in 0..(MaxWorkspaces - 1) : HostMoveWindow(w, i)
    \/ HostAppendWorkspace
    \/ \E i \in 0..(MaxWorkspaces - 1) : HostRemoveWorkspace(i)

\* All windows on the primary monitor, none pinned; workspaces on the primary
\* monitor only with the default placement, or on all monitors with the
\* insert-after-current placement.
InitReentrant ==
    /\ Layout /\ Quiet
    /\ trackHome = FALSE /\ idleSources = IdleUnwatched
    /\ winMon = [w \in Windows |-> "primary"]
    /\ sticky = {}
    /\ onlyPrimary = ~insertAfter

SpecReentrant == InitReentrant /\ [][NextReentrant]_vars

\* The default placement with all windows on the primary monitor and none
\* pinned; the records keep the identity of the home workspace.
InitDrift ==
    /\ Layout /\ Quiet
    /\ trackHome = TRUE /\ idleSources = IdleUnwatched
    /\ winMon = [w \in Windows |-> "primary"]
    /\ sticky = {}
    /\ ~insertAfter

\* The engine works for window 1 alone, so that between its place and its
\* restore the workspaces change by the host's doing only.
NextDrift ==
    \/ PlaceWindow(1, NoHook)
    \/ ReturnWindow(1, NoHook)
    \/ HostNext

SpecDrift == InitDrift /\ [][NextDrift]_vars

\* The windows that are created, maximized and closed, and those of them
\* that are also made fullscreen and minimized.
EventWindows == {1, 2}

FullscreenWindows == {1}

\* Workspaces on the primary monitor only, the default placement; window 2
\* is not created yet.
InitEvents ==
    /\ order = <<1, 2>>
    /\ wsOf = [w \in Windows |-> IF w = 2 THEN NoWorkspace ELSE 1]
    /\ active = 1
    /\ winMon = [w \in Windows |-> "primary"]
    /\ sticky = {}
    /\ onlyPrimary = TRUE
    /\ insertAfter = FALSE
    /\ trackHome = FALSE /\ idleSources = IdleUnwatched
    /\ placed = [w \in Windows |-> NoRecord]
    /\ pendingOps = {}
    /\ tr = HostTrace
    /\ winMax = {} /\ winFull = {} /\ winMin = {} /\ unmapped = {2}
    /\ pendingActions = [w \in Windows |-> NoAction]
    /\ triggerOnMaximize = TRUE /\ triggerOnFullscreen = TRUE
    /\ filter = DefaultFilter
    /\ appIds = WindowAppId /\ winType = WindowType

NextEvents ==
    \/ \E w \in EventWindows, maximized \in BOOLEAN : WindowMap(w, maximized)
    \/ \E w \in EventWindows, fully \in BOOLEAN, p \in PointerInputs :
          WindowMaximize(w, fully, isOverrideModifierPressed(p.choice, p.mods))
    \/ \E w \in EventWindows, p \in PointerInputs :
          WindowUnmaximize(w, isOverrideModifierPressed(p.choice, p.mods))
    \/ \E w \in FullscreenWindows, p \in PointerInputs :
          WindowFullscreen(w, isOverrideModifierPressed(p.choice, p.mods))
    \/ \E w \in FullscreenWindows, p \in PointerInputs :
          WindowUnfullscreen(w, isOverrideModifierPressed(p.choice, p.mods))
    \/ \E w \in EventWindows : WindowSizeChanged(w)
    \/ \E w \in FullscreenWindows : WindowMinimize(w)
    \/ \E w \in FullscreenWindows : WindowUnminimize(w)
    \/ \E w \in EventWindows, queryable \in BOOLEAN : WindowDestroy(w, queryable)
    \/ \E f \in FilterSettings : SetFilter(f)
    \/ \E b \in BOOLEAN : SetTriggerOnMaximize(b)
    \/ \E b \in BOOLEAN : SetTriggerOnFullscreen(b)

SpecEvents == InitEvents /\ [][NextEvents]_vars

(* ------------------------ the filter's functions ----------------------- *)

\* What the three id getters may return for a window: nothing at all, white
\* space only, an id behind a blank one and with white space around it, an
\* id in the third getter only, ids in mixed case with and without the
\* ".desktop" ending, the bare ending, and an id with white space inside.
AppIdInputs ==
    { <<(<<>>), <<>>, <<>>>>,
      <<(<<" ">>), <<>>, <<" ", " ">>>>,
      <<(<<" ">>), <<" ", "A", " ">>, <<"b">>>>,
      <<(<<>>), <<>>, <<"b", ".Desktop">>>>,
      <<(<<"A", ".desktop">>), <<"b">>, <<>>>>,
      <<(<<".desktop">>), <<"a">>, <<>>>>,
      <<(<<"c", ".desktop", ".desktop">>), <<>>, <<>>>>,
      <<(<<"a", " ", "b">>), <<"a">>, <<>>>> }

\* Entries of the settings blacklist-apps and whitelist-apps.
ListEntries == {<<"A">>, <<"B", ".Desktop">>, <<".desktop">>, <<" ", "a">>}

\* Values of filter-mode with every content of the two lists; "off" stands
\* for a mode that is neither of the two the code knows.
FilterInputs ==
    [mode : {"blacklist", "whitelist", "off"},
     blacklist : SUBSET ListEntries, whitelist : SUBSET ListEntries]

\* Window 1 is the window the filter is asked about: it exists or was
\* destroyed, is of a normal or another type, pinned to all workspaces or
\* not, and reports any of the id triples; the settings hold any filter.
InitFilter ==
    /\ order = <<1, 2>>
    /\ wsOf \in {[w \in Windows |-> 1],
                 [w \in Windows |-> IF w = 1 THEN NoWorkspace ELSE 1]}
    /\ active = 1
    /\ winMon = [w \in Windows |-> "primary"]
    /\ sticky \in {{}, {1}}
    /\ onlyPrimary = TRUE
    /\ insertAfter = FALSE
    /\ trackHome = FALSE /\ idleSources = IdleUnwatched
    /\ placed = [w \in Windows |-> NoRecord]
    /\ pendingOps = {}
    /\ tr = HostTrace
    /\ winMax = {} /\ winFull = {} /\ winMin = {} /\ unmapped = {}
    /\ pendingActions = [w \in Windows |-> NoAction]
    /\ triggerOnMaximize = TRUE /\ triggerOnFullscreen = TRUE
    /\ filter \in FilterInputs
    /\ appIds \in {[WindowAppId EXCEPT ![1] = c] : c \in AppIdInputs}
    /\ winType \in {WindowType, [WindowType EXCEPT ![1] = "DIALOG"]}

\* The answer of a predicate, as the history keeps it.
Verdict(b) == IF b THEN "true" ELSE "false"

\* The history of a call of one of the filter's functions: its name, the
\* window, the other arguments and the answer.
Asked(op, w, args, b) ==
    [op |-> op, win |-> w, calls |-> args, path |-> <<Verdict(b)>>,
     re |-> NoReentry, threw |-> FALSE]

\* All that a call of a filter function leaves as it is.
program == <<order, wsOf, active, placed, pendingOps, pendingActions, idleSources,
             config, windowState, settings>>

\* WindowFilter.isManagedWindow(window) is called.
IsManagedWindow(w) ==
    /\ tr' = Asked("isManagedWindow", w, <<>>, isManagedWindow(Cur, w))
    /\ UNCHANGED program

\* WindowFilter.isNormalWindow(window) is called.
IsNormalWindow(w) ==
    /\ tr' = Asked("isNormalWindow", w, <<>>, isNormalWindow(Cur, w))
    /\ UNCHANGED program

NextFilter ==
    \/ \E w \in Windows : IsManagedWindow(w)
    \/ \E w \in Windows : IsNormalWindow(w)

SpecFilter == InitFilter /\ [][NextFilter]_vars

\* Meta.SizeChange
SizeChanges == {"MAXIMIZE", "UNMAXIMIZE", "FULLSCREEN", "UNFULLSCREEN", "MONITOR_MOVE"}

\* Rectangles a size-change signal may carry as oldRect.
OldRects ==
    {get_work_area_for_monitor(m) : m \in Monitors}
        \cup {get_monitor_geometry(m) : m \in Monitors}
        \cup {FloatingRect(m) : m \in Monitors}

\* The settings hold any filter of FilterSettings and any value of the two
\* triggers; windows 1 and 2 are maximized or not, window 1 is fullscreen or
\* not and on either monitor, window 2 is pinned or not, window 3 is gone.
InitTriggers ==
    /\ order = <<1, 2>>
    /\ wsOf = [w \in Windows |-> IF w = 3 THEN NoWorkspace ELSE 1]
    /\ active = 1
    /\ winMon \in {[w \in Windows |-> "primary"],
                   [w \in Windows |-> IF w = 1 THEN "secondary" ELSE "primary"]}
    /\ sticky \in {{}, {2}}
    /\ onlyPrimary = TRUE
    /\ insertAfter = FALSE
    /\ trackHome = FALSE /\ idleSources = IdleUnwatched
    /\ placed = [w \in Windows |-> NoRecord]
    /\ pendingOps = {}
    /\ tr = HostTrace
    /\ winMax \in SUBSET EventWindows /\ winFull \in SUBSET FullscreenWindows
    /\ winMin = {} /\ unmapped = {}
    /\ pendingActions = [w \in Windows |-> NoAction]
    /\ triggerOnMaximize \in BOOLEAN /\ triggerOnFullscreen \in BOOLEAN
    /\ filter \in FilterSettings
    /\ appIds = WindowAppId /\ winType = WindowType

\* WindowFilter.shouldPlaceOnSizeChange(window, change) is called.
ShouldPlaceOnSizeChange(w, change) ==
    /\ tr' = Asked("shouldPlaceOnSizeChange", w, <<change>>,
                   shouldPlaceOnSizeChange(Cur, w, change))
    /\ UNCHANGED program

\* WindowFilter.shouldReturnOnSizeChange(window, change, oldRect) is called.
ShouldReturnOnSizeChange(w, change, oldRect) ==
    /\ tr' = Asked("shouldReturnOnSizeChange", w, <<change, oldRect>>,
                   shouldReturnOnSizeChange(Cur, w, change, oldRect))
    /\ UNCHANGED program

NextTriggers ==
    \/ \E w \in Windows, change \in SizeChanges : ShouldPlaceOnSizeChange(w, change)
    \/ \E w \in Windows, change \in SizeChanges, oldRect \in OldRects :
          ShouldReturnOnSizeChange(w, change, oldRect)

SpecTriggers == InitTriggers /\ [][NextTriggers]_vars

\* The default placement on MaxFallbackWorkspaces workspaces: windows 1 and
\* 2 on the last one, window 3 anywhere; workspaces on the primary monitor
\* only with all windows on it, or workspaces on all monitors with window 3
\* on the secondary.
InitFallback ==
    /\ order = [i \in 1..MaxFallbackWorkspaces |-> i]
    /\ wsOf \in {f \in [Windows -> 1..MaxFallbackWorkspaces] :
                    f[1] = MaxFallbackWorkspaces /\ f[2] = MaxFallbackWorkspaces}
    /\ active = wsOf[1]
    /\ winMon \in {[w \in Windows |-> "primary"],
                   [w \in Windows |-> IF w = 3 THEN "secondary" ELSE "primary"]}
    /\ sticky = {}
    /\ onlyPrimary = (winMon[3] = get_primary_monitor)
    /\ insertAfter = FALSE
    /\ placed = [w \in Windows |-> NoRecord]
    /\ pendingOps = {}
    /\ tr = HostTrace
    /\ Quiet
    /\ trackHome = FALSE /\ idleSources = IdleUnwatched

\* The engine works for window 1; the user moves windows and closes
\* window 2, and the host removes empty workspaces, so that a recorded
\* index falls out of range.
NextFallback ==
    \/ PlaceWindow(1, NoHook)
    \/ ReturnWindow(1, NoHook)
    \/ \E w \in Windows, i \in 0..(MaxFallbackWorkspaces - 1) : HostMoveWindow(w, i)
    \/ \E i \in 0..(MaxFallbackWorkspaces - 1) : HostRemoveWorkspace(i)
    \/ WindowDestroy(2, TRUE)

SpecFallback == InitFallback /\ [][NextFallback]_vars

\* The handlers together with the main loop that runs the idle callbacks of
\* _focusMovedWindow; window 1 can be closed while a callback waits, and
\* window.activate() or window.raise() may throw.
InitIdle ==
    /\ order = <<1, 2>>
    /\ wsOf = [w \in Windows |-> 1]
    /\ active = 1
    /\ winMon = [w \in Windows |-> "primary"]
    /\ sticky = {}
    /\ onlyPrimary = TRUE
    /\ insertAfter \in BOOLEAN
    /\ placed = [w \in Windows |-> NoRecord]
    /\ pendingOps = {}
    /\ tr = HostTrace
    /\ Quiet
    /\ trackHome = FALSE
    /\ idleSources = <<>>

NextIdle ==
    \/ \E w \in ManagedWindows :
          Len(idleSources) < MaxIdleSources /\ PlaceWindow(w, NoHook)
    \/ \E w \in ManagedWindows :
          Len(idleSources) < MaxIdleSources /\ ReturnWindow(w, NoHook)
    \/ \E h \in {NoHook} \cup [at : 1..MaxHookAt, kind : {"throw"}, win : {0}] :
          IdleTurn(h)
    \/ WindowDestroy(1, TRUE)

SpecIdle == InitIdle /\ [][NextIdle]_vars

(* --------------------- the workspace manager's queries ------------------ *)

\* What a caller may hand in as the host's workspace manager: nothing, an
\* object whose methods throw, or the manager.
ManagerInputs == {"null", "throws", "manager"}

\* Any placement of the windows on the workspaces and the monitors.
InitQueries ==
    /\ order = [i \in 1..MaxFallbackWorkspaces |-> i]
    /\ wsOf \in [Windows -> 1..MaxFallbackWorkspaces]
    /\ active = 1
    /\ winMon \in [Windows -> Monitors]
    /\ sticky \in {{}, {1}, {3}}
    /\ onlyPrimary \in BOOLEAN
    /\ insertAfter = FALSE
    /\ placed = [w \in Windows |-> NoRecord]
    /\ pendingOps = {}
    /\ tr = HostTrace
    /\ Quiet
    /\ trackHome = FALSE
    /\ idleSources = IdleUnwatched

\* The history of a query: its name, its arguments and the index returned.
Answered(op, args, result) ==
    [op |-> op, win |-> 0, calls |-> <<args, <<result>>>>, path |-> <<>>,
     re |-> NoReentry, threw |-> FALSE]

\* WorkspaceManager.getFirstFreeWorkspace(manager, monitor) is called: -1
\* without a manager and from the catch block, the scan otherwise.
GetFirstFreeWorkspace(manager, monitor) ==
    /\ tr' = Answered("getFirstFreeWorkspace", <<manager, monitor>>,
                      IF manager = "manager" THEN getFirstFreeWorkspace(Cur, monitor)
                      ELSE NotFound)
    /\ UNCHANGED program

\* WorkspaceManager.getLastOccupiedWorkspace(manager, currentIndex, monitor)
\* is called.
GetLastOccupiedWorkspace(manager, currentIndex, monitor) ==
    /\ tr' = Answered("getLastOccupiedWorkspace", <<manager, currentIndex, monitor>>,
                      IF manager = "manager"
                      THEN getLastOccupiedWorkspace(Cur, currentIndex, monitor)
                      ELSE NotFound)
    /\ UNCHANGED program

NextQueries ==
    \/ \E manager \in ManagerInputs, monitor \in Monitors :
          GetFirstFreeWorkspace(manager, monitor)
    \/ \E manager \in ManagerInputs, i \in 0..(MaxFallbackWorkspaces - 1),
          monitor \in Monitors :
          GetLastOccupiedWorkspace(manager, i, monitor)

SpecQueries == InitQueries /\ [][NextQueries]_vars

(* ------------------------------ properties ----------------------------- *)

TypeOK ==
    /\ Len(order) \in 1..MaxWorkspaces
    /\ Range(order) \subseteq WorkspaceIds
    /\ Cardinality(Range(order)) = Len(order)
    /\ wsOf \in [Windows -> WorkspaceIds \cup {NoWorkspace}]
    /\ active \in Range(order)
    /\ \A w \in Windows : placed[w] \in PlacementRecords \cup {NoRecord}
    /\ pendingOps \subseteq Windows
    /\ winMax \subseteq Windows /\ winFull \subseteq Windows
    /\ winMin \subseteq Windows /\ unmapped \subseteq Windows
    /\ pendingActions \in [Windows -> {NoAction, MARKER_PLACE, MARKER_BACK}]
    /\ \/ idleSources = IdleUnwatched
       \/ /\ Len(idleSources) <= MaxIdleSources
          /\ \A i \in DOMAIN idleSources :
                idleSources[i] \in [win : Windows, turn : {1, 2}]
    /\ filter \in FilterSettings \cup FilterInputs
    /\ appIds \in [Windows -> Seq(Seq(IdPieces))]
    /\ winType \in [Windows -> {"NORMAL", "DIALOG"}]

(* ---------------------- the guard (C1, C2) ------------------------------ *)

\* C1 (guard exclusivity): a place or restore request for a window that
\* arrives while the guard holds that window (a call back made from inside a
\* host side effect of the running operation) is dropped: it enters no engine
\* function, makes no host call, and changes no record, no workspace order,
\* no window assignment and not the guard; nothing is kept of it for later.
GuardExclusivity ==
    (tr.re.op # "none" /\ tr.re.guarded) => ~tr.re.changed

\* A place(w) that wrote its record was called back with place(w) while it
\* held the guard.
GuardExclusivityWitness ==
    /\ tr.op = "place" /\ tr.re.op = "place" /\ tr.re.win = tr.win
    /\ tr.re.guarded
    /\ placed[tr.win] # NoRecord

\* C2 (guard release): after every place or restore, whichever way it ended
\* (early return, success, an exception raised by a host call part-way), the
\* guard holds no window: between two events the guard is empty.
GuardReleased == pendingOps = {}

\* A host call threw inside place(w), past the inner handlers: the record was
\* not written.
GuardReleasedWitness ==
    /\ tr.op = "place" /\ tr.threw
    /\ "insert" \in Range(tr.path)
    /\ placed[tr.win] = NoRecord

(* ------------------- restore after restore (C3) ------------------------- *)

StateUnchangedBy(r) ==
    /\ r.order = order /\ r.wsOf = wsOf /\ r.active = active
    /\ r.placed = placed /\ r.pendingOps = pendingOps
    /\ r.calls = <<>>

\* C3 (idempotence of restore): directly after restore(w), a second
\* restore(w) changes no workspace order, no window assignment, not the
\* active workspace and no record, and makes no host call (it schedules no
\* focus).
RestoreIdempotent ==
    tr.op = "restore" => StateUnchangedBy(returnWindowToOldWorkspace(Cur, tr.win))

\* The first restore(w) found a record and moved the window.
RestoreIdempotentWitness ==
    /\ tr.op = "restore"
    /\ "home" \in Range(tr.path)
    /\ \E i \in 1..Len(tr.calls) : tr.calls[i][1] = "change"

(* ------------------ place in the default mode (C4 - C6) ----------------- *)

\* The windows place(w) finds beside w: on w's workspace and monitor, pinned
\* windows aside.
OthersBeside(s, w) ==
    getOtherWindowsOnMonitor(s, get_workspace(s, w), w, s.mon[w])

Rejoined(r, w, others) ==
    \A x \in others : get_workspace(r, x) = get_workspace(r, w)

\* C4 (reorder round-trip): in the default mode, place(w) directly followed
\* by restore(w) leaves w on one workspace with every window that was beside
\* it (same workspace, same monitor) before place.
RoundTrip ==
    [][(tr'.op = "place" /\ ~insertAfter) =>
        Rejoined(returnWindowToOldWorkspace(CurNext, tr'.win), tr'.win,
                 OthersBeside(Cur, tr'.win))]_vars

\* C4, narrowed to a place that acts: in the default mode, when place(w)
\* swaps the workspaces and writes w's record, a directly following
\* restore(w) leaves w on one workspace with every window that was beside it
\* before place.  (A place that aborts leaves an older record of w in place,
\* and restore then follows that record.)
RoundTripAfterSwap ==
    [][(tr'.op = "place" /\ ~insertAfter /\ "reorder" \in Range(tr'.path)) =>
        Rejoined(returnWindowToOldWorkspace(CurNext, tr'.win), tr'.win,
                 OthersBeside(Cur, tr'.win))]_vars

\* place(w) swapped the workspaces, and restore(w) in this state takes w to
\* the recorded index.
RoundTripWitness ==
    /\ tr.op = "place" /\ ~insertAfter
    /\ "reorder" \in Range(tr.path)
    /\ "home" \in Range(returnWindowToOldWorkspace(Cur, tr.win).path)

PlacedAlone(before, after, w) ==
    /\ OthersBeside(after, w) = {}
    /\ index(after, get_workspace(after, w)) = getFirstFreeWorkspace(before, before.mon[w])
    /\ after.placed[w].mode = "reorder"
    /\ after.placed[w].homeWorkspaceIndex = index(before, get_workspace(before, w))

\* C5 (place postcondition, default mode): when place(w) finds other windows
\* beside w and a first free workspace at index f, then afterwards w is the
\* only window of its monitor on its workspace (pinned windows aside), that
\* workspace sits at index f, and w has a record of mode reorder whose
\* homeWorkspaceIndex is the index w's workspace had before.
PlacePostcondition ==
    [][(/\ tr'.op = "place" /\ ~insertAfter
        /\ OthersBeside(Cur, tr'.win) # {}
        /\ getFirstFreeWorkspace(Cur, winMon[tr'.win]) # NotFound)
       => PlacedAlone(Cur, CurNext, tr'.win)]_vars

\* place(w) swapped two workspaces that are not neighbours.
PlacePostconditionWitness ==
    /\ tr.op = "place" /\ ~insertAfter
    /\ "reorder" \in Range(tr.path)
    /\ placed[tr.win].mode = "reorder"
    /\ \/ index(Cur, wsOf[tr.win]) - placed[tr.win].homeWorkspaceIndex > 1
       \/ placed[tr.win].homeWorkspaceIndex - index(Cur, wsOf[tr.win]) > 1

SameIndex(before, after, x) ==
    index(after, get_workspace(after, x)) = index(before, get_workspace(before, x))

\* C6 (other windows stay in place): place(w) in the default mode leaves
\* every window other than w, on any monitor and any workspace, at the
\* workspace index it had before (a window on all workspaces has no index of
\* its own), with workspaces on the primary monitor only and on all monitors.
OthersStayInPlace ==
    [][(tr'.op = "place" /\ ~insertAfter) =>
        \A x \in Windows \ {tr'.win} :
            ~on_all_workspaces(Cur, x) => SameIndex(Cur, CurNext, x)]_vars

\* Workspaces on all monitors: place(w) swapped the workspaces and took a
\* window of another monitor back to the index of the free workspace.
OthersStayInPlaceWitness ==
    /\ tr.op = "place" /\ ~insertAfter /\ ~onlyPrimary
    /\ "reorder" \in Range(tr.path)
    /\ \E i \in 1..Len(tr.calls) :
          /\ tr.calls[i][1] = "change"
          /\ winMon[tr.calls[i][2]] # winMon[tr.win]
          /\ tr.calls[i][3] = index(Cur, wsOf[tr.win])

(* ------------------- restore and the recorded index (C7, C8) ------------ *)

\* C7 (restore tolerates index drift): when the workspace now at the recorded
\* homeWorkspaceIndex is not the workspace that sat there when the record was
\* written, restore(w) takes the fallback and does not move w to the recorded
\* index.
RestoreToleratesDrift ==
    [][(/\ tr'.op = "restore"
        /\ placed[tr'.win] # NoRecord
        /\ get_workspace_by_index(Cur, placed[tr'.win].homeWorkspaceIndex)
              # placed[tr'.win].home)
       => (/\ "fallback" \in Range(tr'.path)
           /\ "home" \notin Range(tr'.path))]_vars

\* C8 (home-index fallback): when restore(w) finds a record whose
\* homeWorkspaceIndex is negative or not below the number of workspaces, no
\* exception is raised, no window is moved to that index, and the fallback
\* is taken.
HomeIndexFallback ==
    [][(/\ tr'.op = "restore"
        /\ placed[tr'.win] # NoRecord
        /\ \/ placed[tr'.win].homeWorkspaceIndex < 0
           \/ placed[tr'.win].homeWorkspaceIndex >= Len(order))
       => (/\ ~tr'.threw
           /\ "fallback" \in Range(tr'.path)
           /\ \A i \in 1..Len(tr'.calls) :
                 ~(tr'.calls[i][1] = "change"
                   /\ tr'.calls[i][3] = placed[tr'.win].homeWorkspaceIndex))]_vars

\* restore(w) took the fallback and swapped w's workspace with the nearest
\* occupied one.
HomeIndexFallbackWitness ==
    /\ tr.op = "restore"
    /\ "fallback" \in Range(tr.path)
    /\ "swapback" \in Range(tr.path)

(* ------------------------ the record set (C9, C10) --------------------- *)

\* C9 (record-set bound): between events, every existing window with a
\* record is a window the filter manages that is maximized or fullscreen (a
\* window whose return is pending, between the begin and the end of its size
\* change, aside), whatever events and setting changes came before.
RecordsOfMaximizedWindows ==
    \A w \in Windows :
        (placed[w] # NoRecord /\ IsAlive(Cur, w) /\ pendingActions[w] # MARKER_BACK) =>
            /\ isManagedWindow(Cur, w)
            /\ w \in winMax \cup winFull

\* C10 (orphan cleanup): after the destroy event of a window was handled (the
\* window was still queryable then), the window has no record, whatever the
\* filter setting is at that time.
NoRecordAfterDestroy ==
    (tr.op = "destroy" /\ "destroy" \in Range(tr.path)) => placed[tr.win] = NoRecord

(* ------------- pending transitions (C11, C12, C13, C14, C15) ------------ *)

OverrideBypass ==
    [][(tr'.op \in {"maximize", "fullscreen"} /\ "held" \in Range(tr'.path)) =>
           /\ "bypass" \in Range(tr'.path)
           /\ pendingActions' = pendingActions
           /\ tr'.calls = <<>>]_vars

\* The modifier was held while a window that the filter would have placed was
\* maximized, and the window has no pending action.
OverrideBypassWitness ==
    /\ tr.op = "maximize"
    /\ "held" \in Range(tr.path)
    /\ shouldPlaceOnSizeChange(Cur, tr.win, "MAXIMIZE")
    /\ pendingActions[tr.win] = NoAction

\* C13 (override applies to every transition-begin event): whenever the
\* configured override modifier is held while the begin of a size change of
\* any kind (maximize, unmaximize, fullscreen, unfullscreen) is handled, no
\* action is recorded for the window.
OverrideOnEveryBegin ==
    [][(/\ tr'.op \in {"maximize", "unmaximize", "fullscreen", "unfullscreen"}
        /\ "held" \in Range(tr'.path))
       => (/\ "set" \notin Range(tr'.path)
           /\ pendingActions' = pendingActions)]_vars

\* C13 as the code has it: the override modifier held at the begin of a
\* maximize or fullscreen size change keeps any action from being recorded;
\* at the begin of an unmaximize or unfullscreen size change the modifier is
\* not consulted, and the pending actions after the event are those the same
\* event leaves when the modifier is not held.
OverrideOnEnteringOnly ==
    [][("held" \in Range(tr'.path)) =>
           /\ tr'.op \in {"maximize", "fullscreen"} =>
                  ("set" \notin Range(tr'.path) /\ pendingActions' = pendingActions)
           /\ tr'.op = "unmaximize" =>
                  pendingActions' =
                      onWindowSizeChange([Cur EXCEPT !.max = @ \ {tr'.win}], tr'.win,
                                         "UNMAXIMIZE", get_frame_rect(Cur, tr'.win), FALSE).pendingActions
           /\ tr'.op = "unfullscreen" =>
                  pendingActions' =
                      onWindowSizeChange([Cur EXCEPT !.full = @ \ {tr'.win}], tr'.win,
                                         "UNFULLSCREEN", get_frame_rect(Cur, tr'.win), FALSE).pendingActions]_vars

\* The modifier was held while a placed window was unmaximized, and the event
\* recorded the return of the window.
OverrideOnEnteringOnlyWitness ==
    /\ tr.op = "unmaximize"
    /\ "held" \in Range(tr.path)
    /\ "set" \in Range(tr.path)
    /\ placed[tr.win] # NoRecord
    /\ pendingActions[tr.win] = MARKER_BACK

\* C14 (latest begin wins): a window has at most one pending action, and after
\* the begin of a size change of window w was handled, the pending action of w
\* is the one deduced from that event: the action it recorded or, when no
\* action was deduced from it, none; so an action recorded by an earlier begin
\* event is not executed at the next end event.
LatestBeginWins ==
    [][(tr'.op \in {"maximize", "unmaximize", "fullscreen", "unfullscreen"}) =>
           /\ pendingActions'[tr'.win] \in {NoAction, MARKER_PLACE, MARKER_BACK}
           /\ ("set" \notin Range(tr'.path)) => pendingActions'[tr'.win] = NoAction]_vars

\* The step ends in the engine state r, with the host calls and the path of r.
EndsAs(r) ==
    /\ order' = r.order /\ wsOf' = r.wsOf /\ active' = r.active
    /\ placed' = r.placed /\ pendingOps' = r.pendingOps
    /\ tr'.calls = r.calls /\ tr'.path = r.path

\* The end handler, run while the host call h.at of the engine throws, leaves
\* window w without a pending action and lets no exception escape.
IdleAfterFailure(w, h) ==
    /\ onWindowSizeChanged(Start(h), w).pendingActions[w] = NoAction
    /\ ~onWindowSizeChanged(Start(h), w).exc

\* C15 (begin/end pairing): a size-changed event for window w with a pending
\* action removes the entry and makes exactly the one engine call the action
\* names (place for 'place', restore for 'back') on the state without the
\* entry; w has no pending action afterwards, also when a host call of the
\* engine throws; a size-changed event without a pending entry for w changes
\* nothing and makes no call.
EndConsumesPending ==
    [][(tr'.op = "size-changed") =>
           /\ pendingActions[tr'.win] = NoAction =>
                  /\ UNCHANGED <<order, wsOf, active, placed, pendingOps, pendingActions>>
                  /\ tr'.calls = <<>> /\ tr'.path = <<>>
           /\ pendingActions[tr'.win] = MARKER_PLACE =>
                  /\ pendingActions' = [pendingActions EXCEPT ![tr'.win] = NoAction]
                  /\ EndsAs(placeWindowOnWorkspace(
                                Enter([Cur EXCEPT !.pendingActions[tr'.win] = NoAction], "end"),
                                tr'.win))
           /\ pendingActions[tr'.win] = MARKER_BACK =>
                  /\ pendingActions' = [pendingActions EXCEPT ![tr'.win] = NoAction]
                  /\ EndsAs(returnWindowToOldWorkspace(
                                Enter([Cur EXCEPT !.pendingActions[tr'.win] = NoAction], "end"),
                                tr'.win))
           /\ \A h \in {k \in Hooks : k.kind = "throw"} : IdleAfterFailure(tr'.win, h)]_vars

\* A size-changed event consumed the pending action of a window and the
\* engine moved the window.
EndConsumesPendingWitness ==
    /\ tr.op = "size-changed"
    /\ "end" \in Range(tr.path)
    /\ pendingActions[tr.win] = NoAction
    /\ \E i \in 1..Len(tr.calls) : tr.calls[i][1] = "change"

(* ---------------------- the filter (C16, C17, C20) ---------------------- *)

\* The filter is in the given mode and was asked whether window w, which
\* exists, is of the normal type and is not pinned, is managed.
AskedOfNormalWindow(mode) ==
    /\ tr.op = "isManagedWindow"
    /\ filter.mode = mode
    /\ IsAlive(Cur, tr.win)
    /\ winType[tr.win] = "NORMAL"
    /\ tr.win \notin sticky

\* C16 (deny-list fail-open): in blacklist mode a normal window that is not
\* pinned and for which none of the id getters gives an id is managed,
\* whatever the deny list holds; and such a window with an id is managed
\* exactly when its id, in lower case and without a trailing ".desktop", is
\* not among the deny list's entries taken the same way.
DenyListFailOpen ==
    AskedOfNormalWindow("blacklist") =>
        /\ getWindowAppId(Cur, tr.win) = <<>> => tr.path = <<"true">>
        /\ getWindowAppId(Cur, tr.win) # <<>> =>
               (tr.path = <<"true">>
                   <=> \A e \in filter.blacklist :
                          \/ normalizeId(e) = <<>>
                          \/ normalizeId(e) # normalizeId(getWindowAppId(Cur, tr.win)))

\* The filter was asked about a normal window whose id getters give white
\* space only, while the deny list held every entry, and answered that the
\* window is managed.
DenyListFailOpenWitness ==
    /\ AskedOfNormalWindow("blacklist")
    /\ filter.blacklist = ListEntries
    /\ appIds[tr.win][1] = <<" ">>
    /\ getWindowAppId(Cur, tr.win) = <<>>
    /\ tr.path = <<"true">>

\* C17 (allow-list fail-closed): in whitelist mode with an empty allow list
\* no window is managed, a window with an id included; with a non-empty
\* allow list a window is managed only if one of its id getters gave an id
\* and that id, in lower case and without a trailing ".desktop", is among the
\* allow list's entries taken the same way.
AllowListFailClosed ==
    (tr.op = "isManagedWindow" /\ filter.mode = "whitelist") =>
        /\ filter.whitelist = {} => tr.path = <<"false">>
        /\ tr.path = <<"true">> =>
               /\ getWindowAppId(Cur, tr.win) # <<>>
               /\ \E e \in filter.whitelist :
                      /\ normalizeId(e) # <<>>
                      /\ normalizeId(e) = normalizeId(getWindowAppId(Cur, tr.win))

\* The filter was asked about a normal window with an id while the allow
\* list was empty, and answered that the window is not managed.
AllowListFailClosedWitness ==
    /\ AskedOfNormalWindow("whitelist")
    /\ filter.whitelist = {}
    /\ getWindowAppId(Cur, tr.win) = <<"A">>
    /\ tr.path = <<"false">>

\* The id of window w passes the allow/deny check: both the id and the
\* entries of the list are taken in lower case and without a trailing
\* ".desktop"; entries that are empty then are no entries.
IdentityPasses(w) ==
    IF filter.mode = "whitelist"
    THEN \E e \in filter.whitelist :
            /\ normalizeId(e) # <<>>
            /\ normalizeId(e) = normalizeId(getWindowAppId(Cur, w))
    ELSE IF filter.mode = "blacklist"
    THEN \A e \in filter.blacklist :
            \/ normalizeId(e) = <<>>
            \/ normalizeId(e) # normalizeId(getWindowAppId(Cur, w))
    ELSE TRUE

\* C20 (isManagedWindow): a window is managed exactly when it can still be
\* queried, its type is normal, it is not pinned to all workspaces and its id
\* passes the allow/deny check, ids being compared in lower case and without
\* a trailing ".desktop" on both sides: the id "A.desktop" matches the entry
\* "A", and the id "b.Desktop" matches the entry "B.Desktop".
ManagedIffNormalAndAllowed ==
    (tr.op = "isManagedWindow") =>
        /\ tr.path = <<"true">> <=>
               /\ IsAlive(Cur, tr.win)
               /\ winType[tr.win] = "NORMAL"
               /\ tr.win \notin sticky
               /\ IdentityPasses(tr.win)
        /\ (/\ AskedOfNormalWindow("whitelist")
            /\ \/ getWindowAppId(Cur, tr.win) = <<"A", ".desktop">>
                  /\ <<"A">> \in filter.whitelist
               \/ getWindowAppId(Cur, tr.win) = <<"b", ".Desktop">>
                  /\ <<"B", ".Desktop">> \in filter.whitelist)
           => tr.path = <<"true">>
        /\ (/\ AskedOfNormalWindow("blacklist")
            /\ \/ getWindowAppId(Cur, tr.win) = <<"A", ".desktop">>
                  /\ <<"A">> \in filter.blacklist
               \/ getWindowAppId(Cur, tr.win) = <<"b", ".Desktop">>
                  /\ <<"B", ".Desktop">> \in filter.blacklist)
           => tr.path = <<"false">>

\* The filter was asked about a window that is not of the normal type and
\* whose id the allow list holds in another spelling, and answered that the
\* window is not managed.
ManagedIffNormalAndAllowedWitness ==
    /\ tr.op = "isManagedWindow"
    /\ filter.mode = "whitelist"
    /\ IsAlive(Cur, tr.win)
    /\ winType[tr.win] # "NORMAL"
    /\ getWindowAppId(Cur, tr.win) = <<"A", ".desktop">>
    /\ <<"A">> \in filter.whitelist
    /\ tr.path = <<"false">>

(* ------------------- the size-change tests (C18, C19) ------------------- *)

\* C18 (shouldReturnOnSizeChange): the answer is true exactly when the window
\* is managed and either the maximize trigger is on, the change is an
\* unmaximize and the work area of the window's monitor equals the previous
\* rectangle, or the fullscreen trigger is on, the change is an unfullscreen
\* and the maximize trigger is off or the window is not maximized; so it is
\* false for an unmaximize whose previous rectangle is not the work area, and
\* false for the unfullscreen of a window that is still maximized while the
\* maximize trigger is on.
ShouldReturnIff ==
    (tr.op = "shouldReturnOnSizeChange") =>
        /\ tr.path = <<"true">> <=>
               /\ isManagedWindow(Cur, tr.win)
               /\ \/ /\ triggerOnMaximize
                     /\ tr.calls[1] = "UNMAXIMIZE"
                     /\ get_work_area_for_monitor(winMon[tr.win]) = tr.calls[2]
                  \/ /\ triggerOnFullscreen
                     /\ tr.calls[1] = "UNFULLSCREEN"
                     /\ (~triggerOnMaximize \/ tr.win \notin winMax)
        /\ (/\ tr.calls[1] = "UNMAXIMIZE"
            /\ get_work_area_for_monitor(winMon[tr.win]) # tr.calls[2])
           => tr.path = <<"false">>
        /\ (tr.calls[1] = "UNFULLSCREEN" /\ triggerOnMaximize /\ tr.win \in winMax)
           => tr.path = <<"false">>

\* The filter was asked about the unfullscreen of a managed window that is
\* still maximized, with both triggers on, and answered that the window is
\* not to be returned.
ShouldReturnIffWitness ==
    /\ tr.op = "shouldReturnOnSizeChange"
    /\ isManagedWindow(Cur, tr.win)
    /\ tr.calls[1] = "UNFULLSCREEN"
    /\ triggerOnMaximize /\ triggerOnFullscreen
    /\ tr.win \in winMax
    /\ tr.path = <<"false">>

\* C19 (shouldPlaceOnSizeChange): the answer is true exactly when the window
\* is managed and either the maximize trigger is on, the change is a maximize
\* and the window is maximized, or the fullscreen trigger is on and the
\* change is a fullscreen; with the fullscreen trigger off a fullscreen
\* change never gives true.
ShouldPlaceIff ==
    (tr.op = "shouldPlaceOnSizeChange") =>
        /\ tr.path = <<"true">> <=>
               /\ isManagedWindow(Cur, tr.win)
               /\ \/ triggerOnMaximize /\ tr.calls[1] = "MAXIMIZE" /\ tr.win \in winMax
                  \/ triggerOnFullscreen /\ tr.calls[1] = "FULLSCREEN"
        /\ (tr.calls[1] = "FULLSCREEN" /\ ~triggerOnFullscreen) => tr.path = <<"false">>

\* The filter was asked about the fullscreen change of a managed window with
\* the fullscreen trigger off, and answered that the window is not to be
\* placed.
ShouldPlaceIffWitness ==
    /\ tr.op = "shouldPlaceOnSizeChange"
    /\ isManagedWindow(Cur, tr.win)
    /\ tr.calls[1] = "FULLSCREEN"
    /\ ~triggerOnFullscreen
    /\ tr.path = <<"false">>


(* ------------------ place in the insert mode (C21, C22) ----------------- *)

InsertedAfter(before, after, w) ==
    /\ getWindowCountOnMonitor(before, get_workspace(after, w), before.mon[w]) = 0
    /\ index(after, get_workspace(after, w))
          = index(after, get_workspace(before, w)) + 1
    /\ \A x \in Windows \ {w} : after.wsOf[x] = before.wsOf[x]
    /\ after.placed[w] # NoRecord
    /\ after.placed[w].mode = "insert"
    /\ after.placed[w].homeWorkspaceIndex = index(before, get_workspace(before, w))

\* C21 (insert-after-current postcondition): when the insert-after-current
\* mode is on and place(w) relocates w using an empty workspace E, then
\* afterwards E sits immediately after the workspace w came from, w is on E,
\* no other window changed workspace, and w's record has mode insert and the
\* index w's workspace had before the call as homeWorkspaceIndex.
InsertPostcondition ==
    [][(tr'.op = "place" /\ insertAfter /\ "insert" \in Range(tr'.path))
       => InsertedAfter(Cur, CurNext, tr'.win)]_vars


BackWhereItWas(before, r, w) ==
    /\ get_workspace(r, w) = get_workspace(before, w)
    /\ \A x \in Windows \ {w} : r.wsOf[x] = before.wsOf[x]

\* C22 (insert-after-current round-trip): with the insert-after-current mode
\* on, place(w) directly followed by restore(w) returns w to the workspace
\* (the same workspace, with the same windows beside it) it was on before
\* place, wherever the empty workspace lay relative to the current one.
InsertRoundTrip ==
    [][(tr'.op = "place" /\ insertAfter /\ "insert" \in Range(tr'.path))
       => BackWhereItWas(Cur, returnWindowToOldWorkspace(CurNext, tr'.win),
                         tr'.win)]_vars


(* --------------- place off the primary monitor (C23) -------------------- *)

\* C23 (non-primary windows are never placed when workspaces are on the
\* primary monitor only): in the default mode with workspaces on the primary
\* monitor only, place(w) for a window w of another monitor changes no
\* workspace order, no window assignment and not the active workspace,
\* writes no record and makes no host call.
OffPrimaryUntouched ==
    [][(/\ tr'.op = "place" /\ ~insertAfter /\ onlyPrimary
        /\ winMon[tr'.win] # get_primary_monitor)
       => (/\ UNCHANGED <<order, wsOf, active, placed, pendingOps>>
           /\ tr'.calls = <<>>)]_vars

\* place(w) ran for a window of the secondary monitor that has another
\* window beside it, while a workspace is free on the primary monitor.
OffPrimaryUntouchedWitness ==
    /\ tr.op = "place" /\ ~insertAfter /\ onlyPrimary
    /\ winMon[tr.win] # get_primary_monitor
    /\ "place" \in Range(tr.path)
    /\ OthersBeside(Cur, tr.win) # {}
    /\ getFirstFreeWorkspace(Cur, get_primary_monitor) # NotFound


(* ---------------- the swap of two workspaces (C24, C25) ----------------- *)

Exchanged(before, after, c, f) ==
    /\ Len(after) = Len(before)
    /\ after[c + 1] = before[f + 1]
    /\ after[f + 1] = before[c + 1]
    /\ \A i \in 1..Len(before) : i \notin {c + 1, f + 1} => after[i] = before[i]

Conserved(before, after) ==
    /\ Len(after.order) = Len(before.order)
    /\ Range(after.order) = Range(before.order)
    /\ Cardinality(Range(after.order)) = Len(after.order)
    /\ \A x \in Windows :
          /\ IsAlive(after, x) = IsAlive(before, x)
          /\ IsAlive(after, x) => get_workspace(after, x) \in Range(after.order)

\* C24 (position swap and conservation): a place in the default mode that
\* swaps exchanges the positions of the current workspace and the first free
\* workspace and leaves every other workspace at its index; after any place
\* in the default mode the workspace sequence is a permutation of the one
\* before (nothing created, nothing destroyed) and every window is on
\* exactly one workspace of the sequence.
SwapAndConservation ==
    [][(tr'.op = "place" /\ ~insertAfter) =>
        /\ Conserved(Cur, CurNext)
        /\ "reorder" \in Range(tr'.path) =>
              Exchanged(order, order', index(Cur, get_workspace(Cur, tr'.win)),
                        getFirstFreeWorkspace(Cur, winMon[tr'.win]))]_vars

\* place(w) swapped the first and the third of three workspaces; the one in
\* between kept its index.
SwapAndConservationWitness ==
    /\ tr.op = "place" /\ ~insertAfter
    /\ "reorder" \in Range(tr.path)
    /\ Len(order) = 3
    /\ Len(tr.calls) >= 2
    /\ tr.calls[1][1] = "reorder" /\ tr.calls[2][1] = "reorder"
    /\ {tr.calls[1][3], tr.calls[2][3]} = {0, 2}


ReorderCalls(calls) == SelectSeq(calls, LAMBDA call : call[1] = "reorder")

\* between is the state after the first of the two calls.
HigherThenLower(before, between, calls, lo, hi) ==
    /\ ReorderCalls(calls) = << <<"reorder", before.order[hi + 1], lo>>,
                                <<"reorder", before.order[lo + 1], hi>> >>
    /\ get_workspace_by_index(between, lo) = before.order[hi + 1]
    /\ get_workspace_by_index(between, lo + 1) = before.order[lo + 1]
    /\ Len(between.order) = Len(before.order)
    /\ Range(between.order) = Range(before.order)
    /\ Cardinality(Range(between.order)) = Len(between.order)

SwapInOrder(before, calls, c, f) ==
    IF c < f
    THEN HigherThenLower(before, ReorderEffect(before, before.order[f + 1], c), calls, c, f)
    ELSE HigherThenLower(before, ReorderEffect(before, before.order[c + 1], f), calls, f, c)

\* C25 (swap ordering): every swap of positions done by place makes exactly
\* two reorder calls: the first moves the workspace at the higher of the two
\* indices down to the lower index, the second moves the displaced workspace
\* (then at the lower index + 1) up to the higher index, whether the current
\* workspace is the lower or the higher; between the two calls the sequence
\* is a permutation of the workspaces without duplicates.
SwapOrdering ==
    [][(tr'.op = "place" /\ "reorder" \in Range(tr'.path)) =>
        SwapInOrder(Cur, tr'.calls, index(Cur, get_workspace(Cur, tr'.win)),
                    getFirstFreeWorkspace(Cur, winMon[tr'.win]))]_vars

\* place(w) swapped with the current workspace at the higher index: the
\* first call took w's workspace from index 2 down to index 0.
SwapOrderingWitness ==
    /\ tr.op = "place"
    /\ "reorder" \in Range(tr.path)
    /\ Len(ReorderCalls(tr.calls)) = 2
    /\ ReorderCalls(tr.calls)[1] = <<"reorder", get_workspace(Cur, tr.win), 0>>
    /\ ReorderCalls(tr.calls)[2][3] = 2


(* ----------------------- a place that aborts (C26) ---------------------- *)

Relocated(before, after, w) ==
    index(after, get_workspace(after, w)) # index(before, get_workspace(before, w))

InBoundsRestore ==
    [][(/\ tr'.op = "restore"
        /\ placed[tr'.win] # NoRecord
        /\ placed[tr'.win].homeWorkspaceIndex >= 0
        /\ placed[tr'.win].homeWorkspaceIndex < Len(order))
       => (/\ get_workspace(CurNext, tr'.win)
                 = get_workspace_by_index(Cur, placed[tr'.win].homeWorkspaceIndex)
           /\ active' = get_workspace_by_index(Cur, placed[tr'.win].homeWorkspaceIndex)
           /\ order' = order
           /\ ReorderCalls(tr'.calls) = <<>>
           /\ \A x \in Windows \ {tr'.win} : wsOf'[x] = wsOf[x])]_vars

\* restore(w) moved w to the recorded index among three workspaces and
\* activated the workspace at that index.
InBoundsRestoreWitness ==
    /\ tr.op = "restore"
    /\ Len(order) = 3
    /\ Len(tr.calls) = 3
    /\ tr.calls[1][1] = "change" /\ tr.calls[1][2] = tr.win
    /\ get_workspace_by_index(Cur, tr.calls[1][3]) = wsOf[tr.win]
    /\ tr.calls[2] = <<"activate", wsOf[tr.win], 0>>
    /\ active = wsOf[tr.win]


(* --------------------- the fallback of restore (C28) -------------------- *)

OutOfRange(w) ==
    /\ placed[w] # NoRecord
    /\ \/ placed[w].homeWorkspaceIndex < 0
       \/ placed[w].homeWorkspaceIndex >= Len(order)

\* C28 (fallback with company): when restore(w) takes the fallback (the
\* recorded index is out of range) and other windows that are not pinned
\* share w's workspace and monitor, the step reorders no workspace and
\* reassigns no window, and still schedules the deferred focus-and-raise of
\* w.
FallbackWithCompany ==
    [][(/\ tr'.op = "restore"
        /\ OutOfRange(tr'.win)
        /\ OthersBeside(Cur, tr'.win) # {})
       => (/\ UNCHANGED <<order, wsOf, active>>
           /\ tr'.calls = << <<"idle_add", tr'.win, 0>> >>)]_vars

\* restore(w) took the fallback beside another window: the only call of the
\* step is the deferred focus.
FallbackWithCompanyWitness ==
    /\ tr.op = "restore"
    /\ "fallback" \in Range(tr.path)
    /\ OthersBeside(Cur, tr.win) # {}
    /\ tr.calls = << <<"idle_add", tr.win, 0>> >>


(* ------------- the fallback of restore, w alone (C29, C30) -------------- *)

\* No other window is on w's workspace, windows on all workspaces aside.
AloneOnWorkspace(s, w) ==
    \A x \in list_windows(s, get_workspace(s, w)) \ {w} : on_all_workspaces(s, x)

NearestOccupied(s, w) ==
    getLastOccupiedWorkspace(s, index(s, get_workspace(s, w)), s.mon[w])

RejoinedAt(before, after, w, k) ==
    /\ index(after, get_workspace(after, w)) = k
    /\ \A x \in getOtherWindowsOnMonitor(before, get_workspace_by_index(before, k),
                                         w, before.mon[w]) :
          get_workspace(after, x) = get_workspace(after, w)

\* C29 (fallback rejoin): when restore(w) takes the fallback, w is alone on
\* its workspace and the nearest occupied workspace of w's monitor is at
\* index k, then afterwards w and every window of w's monitor that was on
\* the workspace at k are together on one workspace, which sits at index k;
\* when no workspace is occupied nothing is changed.
FallbackRejoin ==
    [][(/\ tr'.op = "restore"
        /\ OutOfRange(tr'.win)
        /\ AloneOnWorkspace(Cur, tr'.win))
       => IF NearestOccupied(Cur, tr'.win) = NotFound
          THEN UNCHANGED <<order, wsOf, active>>
          ELSE RejoinedAt(Cur, CurNext, tr'.win, NearestOccupied(Cur, tr'.win))]_vars

\* restore(w) took w's workspace from index 0 to the occupied index 2 and
\* moved a window there.
FallbackRejoinWitness ==
    /\ tr.op = "restore"
    /\ "swapback" \in Range(tr.path)
    /\ Len(tr.calls) >= 2
    /\ tr.calls[1] = <<"reorder", get_workspace(Cur, tr.win), 2>>
    /\ tr.calls[2][1] = "change" /\ tr.calls[2][3] = 2
    /\ wsOf[tr.calls[2][2]] = wsOf[tr.win]


\* C30 (the fallback is a swap of positions): when the fallback of
\* restore(w) moves workspaces, the current workspace and the nearest
\* occupied one exchange their positions, so that every other workspace, and
\* every window on one, keeps its index, also when the two are not
\* neighbours.
FallbackIsSwap ==
    [][(tr'.op = "restore" /\ "swapback" \in Range(tr'.path)) =>
        /\ Exchanged(order, order', index(Cur, get_workspace(Cur, tr'.win)),
                     NearestOccupied(Cur, tr'.win))
        /\ \A x \in Windows :
              (/\ IsAlive(Cur, x) /\ ~on_all_workspaces(Cur, x)
               /\ index(Cur, wsOf[x]) \notin {index(Cur, get_workspace(Cur, tr'.win)),
                                              NearestOccupied(Cur, tr'.win)})
              => SameIndex(Cur, CurNext, x)]_vars


(* ------------------ restore consumes the record first (C31) ------------- *)

\* In the state a host side effect of restore(w) is stopped in, w has no
\* record.
NoRecordIn(mid, w) == mid.stopped => mid.placed[w] = NoRecord

\* C31 (record consumed before work): restore(w) removes w's record before
\* it moves a window or reorders a workspace: in the state of each host side
\* effect of the restore, where the host may call back, w has no record; and
\* after restore(w) w has no record, whether it moved w, fell back, found
\* nothing to do or failed part-way.
RecordConsumedFirst ==
    [][tr'.op = "restore" =>
        /\ placed'[tr'.win] = NoRecord
        /\ \A at \in 1..MaxHookAt :
              NoRecordIn(MidFlight("restore", tr'.win,
                                   [at |-> at, kind |-> "restore", win |-> tr'.win]),
                         tr'.win)]_vars

\* restore(w) found a record and a host call of its work threw; the record
\* is gone.
RecordConsumedFirstWitness ==
    /\ tr.op = "restore"
    /\ tr.threw
    /\ "restore" \in Range(tr.path)
    /\ tr.calls = <<>>
    /\ placed[tr.win] = NoRecord


(* ------------------------ destroy of a placed window (C32) -------------- *)

\* The workspace a record's home index names in s, NoWorkspace when the
\* index is out of bounds.
HomeOf(s, w) == get_workspace_by_index(s, s.placed[w].homeWorkspaceIndex)

\* C32 (destroy of a placed window): handling the destruction of a managed
\* window w that has a record deletes the record and, when the record's home
\* index is within the workspaces, makes the workspace at that index the
\* active one; it moves no window and reorders no workspace; when w has no
\* record the active workspace stays.
DestroyActivatesHome ==
    [][(/\ tr'.op = "destroy"
        /\ "destroy" \in Range(tr'.path)
        /\ isManagedWindow(Cur, tr'.win))
       => /\ placed'[tr'.win] = NoRecord
          /\ tr'.calls = <<>>
          /\ order' = order
          /\ \A x \in Windows \ {tr'.win} : wsOf'[x] = wsOf[x]
          /\ IF placed[tr'.win] = NoRecord THEN active' = active
             ELSE HomeOf(Cur, tr'.win) # NoWorkspace
                     => active' = HomeOf(Cur, tr'.win)]_vars


(* ------------------------ activation and focus after place (C33) -------- *)

\* The calls of a handler hold the scheduling of a focus-and-raise of w.
FocusScheduled(calls, w) == \E i \in DOMAIN calls : calls[i] = <<"idle_add", w, 0>>

\* C33 (activation and focus after place): every place(w) that takes w to
\* another index, in the default mode as well as in insert mode, makes the
\* workspace that holds w afterwards the active one and schedules a deferred
\* focus-and-raise of w.
PlaceActivatesAndFocuses ==
    [][(/\ tr'.op = "place"
        /\ ~tr'.threw
        /\ placed'[tr'.win] # NoRecord
        /\ Relocated(Cur, CurNext, tr'.win))
       => /\ active' = get_workspace(CurNext, tr'.win)
          /\ FocusScheduled(tr'.calls, tr'.win)]_vars


(* ------------------------------ deferred focus (C34) -------------------- *)

\* The calls hold a window.activate() or a window.raise().
Focuses(calls) == \E i \in DOMAIN calls : calls[i][1] \in {"focus", "raise"}

\* The sources after the step are those before it, less the first `taken`
\* of them, followed by the sources in `added`.
SourcesBecome(taken, added) ==
    idleSources' = SubSeq(idleSources, taken + 1, Len(idleSources)) \o added

\* C34 (deferred focus): no place or restore focuses or raises a window
\* itself: it only adds a first idle source, whose turn adds a second one,
\* and only the turn of the second one focuses and raises the window, so the
\* focus comes two idle turns after the call; a source is gone after its
\* turn; and when the window has been destroyed before the second turn, the
\* turn makes no host call, raises no exception and adds no source.
DeferredFocus ==
    [][/\ tr'.op \in {"place", "restore"}
          => /\ ~Focuses(tr'.calls)
             /\ \/ SourcesBecome(0, <<>>)
                \/ SourcesBecome(0, <<[win |-> tr'.win, turn |-> 1]>>)
       /\ (tr'.op = "idle" /\ Head(idleSources).turn = 1)
          => /\ ~Focuses(tr'.calls)
             /\ SourcesBecome(1, <<[win |-> tr'.win, turn |-> 2]>>)
       /\ (tr'.op = "idle" /\ Head(idleSources).turn = 2)
          => /\ SourcesBecome(1, <<>>)
             /\ Head(idleSources).win = tr'.win
             /\ ~IsAlive(Cur, tr'.win) => (tr'.calls = <<>> /\ ~tr'.threw)
       /\ tr'.op \notin {"place", "restore", "idle"}
          => (~Focuses(tr'.calls) /\ SourcesBecome(0, <<>>))]_vars

\* The second idle turn of a focus found its window destroyed and did
\* nothing.
DeferredFocusWitness ==
    /\ tr.op = "idle"
    /\ ~IsAlive(Cur, tr.win)
    /\ tr.calls = <<>>
    /\ ~tr.threw
    /\ idleSources # IdleUnwatched


(* -------------------- insert mode without an empty workspace (C35) ------ *)

\* What place(w) of the default mode makes of s.
DefaultPlace(s, w) == placeWindowOnWorkspace([s EXCEPT !.insertAfter = FALSE], w)

\* The step left the order, the assignments and the records as r has them.
EndsLike(r) == order' = r.order /\ wsOf' = r.wsOf /\ placed' = r.placed

\* C35 (insert-mode fallback): in insert mode, when no workspace is
\* completely empty, place(w) does what the default reorder algorithm does:
\* the same workspace order, the same window assignments and the same
\* record, of mode reorder.
InsertFallsBackToDefault ==
    [][(/\ tr'.op = "place"
        /\ insertAfter
        /\ "place" \in Range(tr'.path)
        /\ getLastCompletelyEmptyWorkspace(Cur) = NotFound)
       => /\ EndsLike(DefaultPlace(Cur, tr'.win))
          /\ placed'[tr'.win] # NoRecord => placed'[tr'.win].mode = "reorder"]_vars


(* ------------------ the workspace manager's queries (C36, C37) ---------- *)

\* The workspace at index i lists no window on the monitor beside windows
\* pinned to all workspaces.
FreeOn(i, monitor) ==
    \A w \in list_windows(Cur, get_workspace_by_index(Cur, i)) :
        w \in sticky \/ winMon[w] # monitor

Indices == 0..(Len(order) - 1)

\* The index a query returned is the one stated for its arguments.
FirstFreeAnswer(manager, monitor, result) ==
    /\ result # NotFound
          => /\ result \in Indices
             /\ FreeOn(result, monitor)
             /\ \A j \in 0..(result - 1) : ~FreeOn(j, monitor)
    /\ result = NotFound
          <=> (manager # "manager" \/ \A i \in Indices : ~FreeOn(i, monitor))

\* C36 (first free workspace): getFirstFreeWorkspace(manager, monitor)
\* returns the smallest index whose workspace has no window on the monitor
\* other than windows pinned to all workspaces; it returns -1 exactly when
\* there is no such workspace or the manager is missing or fails; it raises
\* nothing and changes no state.
FirstFreeIsSmallest ==
    [][tr'.op = "getFirstFreeWorkspace"
       => /\ FirstFreeAnswer(tr'.calls[1][1], tr'.calls[1][2], tr'.calls[2][1])
          /\ ~tr'.threw
          /\ UNCHANGED program]_vars

\* The query answered 2 for a monitor that shows a pinned window on every
\* workspace.
FirstFreeIsSmallestWitness ==
    /\ tr.op = "getFirstFreeWorkspace"
    /\ tr.calls[2][1] = 2
    /\ \E w \in sticky : winMon[w] = tr.calls[1][2]

NearestAnswer(from, monitor, result) ==
    /\ result # from
    /\ IF \E j \in Indices : j < from /\ ~FreeOn(j, monitor)
       THEN /\ result \in Indices /\ result < from /\ ~FreeOn(result, monitor)
            /\ \A j \in Indices : (j < from /\ ~FreeOn(j, monitor)) => j <= result
       ELSE IF \E j \in Indices : j > from /\ ~FreeOn(j, monitor)
       THEN /\ result \in Indices /\ result > from /\ ~FreeOn(result, monitor)
            /\ \A j \in Indices : (j > from /\ ~FreeOn(j, monitor)) => j >= result
       ELSE result = NotFound

\* C37 (nearest occupied workspace): getLastOccupiedWorkspace(manager,
\* fromIndex, monitor) returns the largest index below fromIndex whose
\* workspace has a qualifying window on the monitor, else the smallest such
\* index above fromIndex, else -1; never fromIndex; an index below wins over
\* a closer index above.
NearestOccupiedBackwardFirst ==
    [][(tr'.op = "getLastOccupiedWorkspace" /\ tr'.calls[1][1] = "manager")
       => NearestAnswer(tr'.calls[1][2], tr'.calls[1][3], tr'.calls[2][1])]_vars

\* Asked from index 2, the query answered 0 although the workspace at index
\* 3 is occupied and closer.
NearestOccupiedBackwardFirstWitness ==
    /\ tr.op = "getLastOccupiedWorkspace"
    /\ tr.calls[1][1] = "manager"
    /\ tr.calls[1][2] = 2
    /\ tr.calls[2][1] = 0
    /\ ~FreeOn(3, tr.calls[1][3])


(* ---------------- insert mode on the last workspace (C38) --------------- *)

\* C38 (insert mode on the last workspace): in insert mode, place(w) of a
\* window whose workspace is the last of the sequence changes no workspace
\* order, no window assignment and no record, and makes no host call, also
\* when other windows share the workspace and an empty workspace lies at a
\* lower index.
LastWorkspaceStays ==
    [][(/\ tr'.op = "place"
        /\ insertAfter
        /\ index(Cur, get_workspace(Cur, tr'.win)) >= Len(order) - 1)
       => /\ UNCHANGED <<order, wsOf, active, placed>>
          /\ tr'.calls = <<>>]_vars

\* place(w) in insert mode found w on the last workspace together with
\* another window, with a completely empty workspace before it.
LastWorkspaceStaysWitness ==
    /\ tr.op = "place"
    /\ insertAfter
    /\ "place" \in Range(tr.path)
    /\ tr.calls = <<>>
    /\ index(Cur, get_workspace(Cur, tr.win)) = Len(order) - 1
    /\ getOtherWindowsOnMonitor(Cur, get_workspace(Cur, tr.win), tr.win, winMon[tr.win]) # {}
    /\ getLastCompletelyEmptyWorkspace(Cur) # NotFound
    /\ getLastCompletelyEmptyWorkspace(Cur) < Len(order) - 1


(* ------------------------ placing a placed window (C39) ----------------- *)

\* C39 (one record per window, replaced on a new place): a window has one
\* record or none, and a place(w) that takes a window with a record to
\* another index leaves w with one record whose home index is the index w
\* had right before this place, whatever the earlier record said.
RecordReplacedOnPlace ==
    [][(/\ tr'.op = "place"
        /\ ~tr'.threw
        /\ placed[tr'.win] # NoRecord
        /\ Relocated(Cur, CurNext, tr'.win))
       => /\ placed'[tr'.win] \in PlacementRecords
          /\ placed'[tr'.win].homeWorkspaceIndex
                = index(Cur, get_workspace(Cur, tr'.win))]_vars

\* place(w) overwrote a record of w, and the home index it wrote is 1.
RecordReplacedOnPlaceWitness ==
    /\ tr.op = "place"
    /\ "replace" \in Range(tr.path)
    /\ placed[tr.win] # NoRecord
    /\ placed[tr.win].homeWorkspaceIndex = 1
    /\ index(Cur, get_workspace(Cur, tr.win)) # 1


(* ------------------------- single-phase events (C40) -------------------- *)

\* s without any pending action.
NothingPending(s) == [s EXCEPT !.pendingActions = [x \in Windows |-> NoAction]]

\* The window as the "map" event finds it: on the active workspace, with the
\* maximized state the step gives it.
Mapped(s, w) == [s EXCEPT !.wsOf[w] = active, !.max = winMax']

\* The step ended as the run r of a handler of the engine did, with the same
\* host calls.
DidWhat(r) == EndsLike(r) /\ active' = r.active /\ tr'.calls = r.calls

\* The filter manages w as the event finds it in s, and one of the enabled
\* triggers applies to the state the window is in after the step.
TriggerApplies(s, w) ==
    /\ isManagedWindow(s, w)
    /\ \/ triggerOnMaximize /\ w \in winMax'
       \/ triggerOnFullscreen /\ w \in winFull'

\* C40 (single-phase events): a minimize event of a managed window runs
\* restore(w) at once; a map or unminimize event runs place(w) at once exactly
\* when the filter manages the window and it is maximized with the maximize
\* trigger on, or fullscreen with the fullscreen trigger on, and does nothing
\* otherwise; none of the three events changes a pending action, and what
\* they do does not depend on the pending actions.
SinglePhaseEvents ==
    [][/\ tr'.op \in {"minimize", "map", "unminimize"}
          => pendingActions' = pendingActions
       /\ tr'.op = "minimize"
          => IF isManagedWindow(Cur, tr'.win)
             THEN DidWhat(returnWindowToOldWorkspace(NothingPending(Cur), tr'.win))
             ELSE UNCHANGED <<order, wsOf, active, placed>> /\ tr'.calls = <<>>
       /\ tr'.op = "unminimize"
          => IF TriggerApplies(Cur, tr'.win)
             THEN DidWhat(placeWindowOnWorkspace(NothingPending(Cur), tr'.win))
             ELSE UNCHANGED <<order, wsOf, active, placed>> /\ tr'.calls = <<>>
       /\ tr'.op = "map"
          => IF TriggerApplies(Mapped(Cur, tr'.win), tr'.win)
             THEN DidWhat(placeWindowOnWorkspace(
                              Mapped(NothingPending(Cur), tr'.win), tr'.win))
             ELSE /\ UNCHANGED <<order, active, placed>>
                  /\ wsOf' = [wsOf EXCEPT ![tr'.win] = active]
                  /\ tr'.calls = <<>>]_vars

\* A minimize event restored a window whose pending action is still there.
SinglePhaseEventsWitness ==
    /\ tr.op = "minimize"
    /\ "restore" \in Range(tr.path)
    /\ tr.calls # <<>>
    /\ pendingActions[tr.win] # NoAction

==============================================================================
